---- MODULE Spec2Model ----
(***************************************************************************)
(* Model of the captcha-relay messaging channel (TelegramAdapter): the     *)
(* update cursor, the text-reply wait and the grid-selection wait, run     *)
(* against a backend update queue.                                         *)
(*                                                                         *)
(* Strings are sequences of one-character strings, so that trimming,       *)
(* prefix tests, splitting and digit extraction are computed, not assumed. *)
(***************************************************************************)
EXTENDS Integers, Sequences, FiniteSets, Bags, TLC

\* ---------------------------------------------------------------- bounds
MaxUpdates     == 2  \* updates the backend receives, over a sequence of waits
MaxCalls       == 2  \* waits made on the channel instance, one after the other
MaxGridUpdates == 3  \* updates the backend receives, over one grid-selection wait
MaxCells       == 2  \* grid cells found in a page
MaxGridSide    == 4  \* columns and rows of an annotated grid
MaxTwoUpdates  == 2  \* updates the backend receives while two waits are under way

\* ------------------------------------------------------- program constants
InitialUpdateId == 0     \* this._lastUpdateId = 0
ConfigChat      == 1     \* this.chatId
NumInputSelectors == 5   \* const inputSelectors = [ ... ]
DefaultFontSize == 22    \* fontSize = 22
MinBadgeSize    == 28    \* Math.max(fontSize + 8, 28)
BannerHeight    == 30    \* const bannerHeight = 30 (annotateText)

\* ------------------------------------------------------------ input sets
Timeouts == {1, 2}   \* timeout argument of the waits

\* the clock stops once the deadline of every wait has passed
MaxTime == CHOOSE m \in Timeouts : \A t \in Timeouts : t <= m

\* ------------------------------------------------------------- strings
Digits == <<"0", "1", "2", "3", "4", "5", "6", "7", "8", "9">>

IsDigit(c) == \E i \in 1..10 : Digits[i] = c

\* the value of a digit of a radix up to 16
DigitValues ==
    [c \in {"0", "1", "2", "3", "4", "5", "6", "7", "8", "9", "a", "b", "c", "d", "e", "f",
            "A", "B", "C", "D", "E", "F"} |->
        CHOOSE v \in 0..15 :
            c \in {<<"0", "1", "2", "3", "4", "5", "6", "7", "8", "9",
                     "a", "b", "c", "d", "e", "f">>[v + 1],
                   <<"0", "1", "2", "3", "4", "5", "6", "7", "8", "9",
                     "A", "B", "C", "D", "E", "F">>[v + 1]}]

\* the white space of String.prototype.trim, of \s in a regular expression
\* and of parseInt and Number (WhiteSpace and LineTerminator); a character
\* that is not ASCII is written by its code point
IsSpace(c) ==
    c \in {" ", "\t", "\n", "\r", "\f", "U+000B", "U+00A0", "U+1680", "U+2000",
           "U+2001", "U+2002", "U+2003", "U+2004", "U+2005", "U+2006", "U+2007",
           "U+2008", "U+2009", "U+200A", "U+2028", "U+2029", "U+202F", "U+205F",
           "U+3000", "U+FEFF"}

\* String.prototype.trim
RECURSIVE TrimLeft(_)
TrimLeft(s) ==
    IF s = <<>> THEN <<>>
    ELSE IF IsSpace(Head(s)) THEN TrimLeft(Tail(s)) ELSE s

RECURSIVE TrimRight(_)
TrimRight(s) ==
    IF s = <<>> THEN <<>>
    ELSE IF IsSpace(s[Len(s)]) THEN TrimRight(SubSeq(s, 1, Len(s) - 1)) ELSE s

Trim(s) == TrimRight(TrimLeft(s))

\* data.startsWith(p)
StartsWith(s, p) == Len(s) >= Len(p) /\ SubSeq(s, 1, Len(p)) = p

\* data.split(':')[1]: what stands between the first ':' and the next one
\* (undefined without a ':', which parseInt reads as it reads "")
SplitSecond(s) ==
    LET colons == {i \in 1..Len(s) : s[i] = ":"}
        first == CHOOSE i \in colons : \A j \in colons : i <= j
        later == {i \in colons : i > first}
    IN  IF colons = {} THEN <<>>
        ELSE IF later = {} THEN SubSeq(s, first + 1, Len(s))
        ELSE SubSeq(s, first + 1, (CHOOSE i \in later : \A j \in later : i <= j) - 1)

\* ------------------------------------------------------------- numbers
\* A JavaScript number.  It is NaN, or it has a sign and
\*   size "exact": a whole part below 2^31 (whole) and the digits of its
\*                 fraction, without trailing zeros,
\*   size "big":   a whole part of 2^31 or more, as its decimal digits
\*                 (digits), and the digits of its fraction,
\*   size "inf":   Infinity.
\* The fraction of a double that is not the decimal literal it was read
\* from is held as <<"~">>.
Num(neg, whole, frac) ==
    [nan |-> FALSE, size |-> "exact", neg |-> neg, whole |-> whole, digits |-> <<>>,
     frac |-> frac]

NotANumber ==
    [nan |-> TRUE, size |-> "exact", neg |-> FALSE, whole |-> 0, digits |-> <<>>,
     frac |-> <<>>]

BigNum(neg, digits, frac) ==
    [nan |-> FALSE, size |-> "big", neg |-> neg, whole |-> 0, digits |-> digits,
     frac |-> frac]

Infinite(neg) ==
    [nan |-> FALSE, size |-> "inf", neg |-> neg, whole |-> 0, digits |-> <<>>,
     frac |-> <<>>]

\* the number of an integer
IntNum(n) == Num(n < 0, IF n < 0 THEN 0 - n ELSE n, <<>>)

\* the longest prefix of s made of decimal digits
DigitPrefix(s) ==
    IF \A i \in 1..Len(s) : IsDigit(s[i]) THEN s
    ELSE SubSeq(s, 1, (CHOOSE i \in 1..Len(s) :
                            ~IsDigit(s[i]) /\ \A j \in 1..(i - 1) : IsDigit(s[j])) - 1)

\* the value of the digits s in a radix; -1 above 2^31 - 1 and for a
\* character that is not a digit of the radix
RadixValue(s, radix) ==
    LET Step[acc \in Int, c \in STRING] ==
            IF acc = -1 \/ c \notin DOMAIN DigitValues THEN -1
            ELSE IF DigitValues[c] >= radix THEN -1
            ELSE IF acc > (2147483647 - DigitValues[c]) \div radix THEN -1
            ELSE acc * radix + DigitValues[c]
        Value[i \in 0..Len(s)] == IF i = 0 THEN 0 ELSE Step[Value[i - 1], s[i]]
    IN  Value[Len(s)]

\* Number(tok): StringToNumber, then the nearest double
ToNumber(tok) ==
    LET \* the number of zeros at the start of x, and x without those at its end
        LeadZeros(x) ==
            IF \A i \in 1..Len(x) : x[i] = "0" THEN Len(x)
            ELSE (CHOOSE i \in 1..Len(x) : x[i] # "0" /\ \A j \in 1..(i - 1) : x[j] = "0") - 1
        StripZeros(x) ==
            IF \A i \in 1..Len(x) : x[i] = "0" THEN <<>>
            ELSE SubSeq(x, 1, CHOOSE i \in 1..Len(x) :
                                x[i] # "0" /\ \A j \in (i + 1)..Len(x) : x[j] = "0")
        Zeros(n) == [i \in 1..n |-> "0"]
        \* ---- whole numbers, as their decimal digits without zeros at the
        \* start (<<>> is 0)
        Less(a, b) ==
            \/ Len(a) < Len(b)
            \/ /\ Len(a) = Len(b)
               /\ \E i \in 1..Len(a) :
                    /\ DigitValues[a[i]] < DigitValues[b[i]]
                    /\ \A j \in 1..(i - 1) : a[j] = b[j]
        Odd(a) == a # <<>> /\ DigitValues[a[Len(a)]] % 2 = 1
        \* a + 1: the nines at the end become zeros
        Increment[a \in Seq(STRING)] ==
            IF \A i \in 1..Len(a) : a[i] = "9" THEN <<"1">> \o Zeros(Len(a))
            ELSE [i \in 1..Len(a) |->
                    IF \E j \in (i + 1)..Len(a) : a[j] # "9" THEN a[i]
                    ELSE IF a[i] = "9" THEN "0"
                    ELSE Digits[DigitValues[a[i]] + 2]] \o <<>>
        \* a \div 2: a digit of it is half of the digit of a there, with ten
        \* more when the digit before is odd
        HalfInt[a \in Seq(STRING)] ==
            SubSeq([i \in 1..Len(a) |->
                        Digits[(((IF i > 1 /\ DigitValues[a[i - 1]] % 2 = 1 THEN 10 ELSE 0)
                                    + DigitValues[a[i]]) \div 2) + 1]],
                   IF a # <<>> /\ a[1] = "1" THEN 2 ELSE 1, Len(a))
        \* 2 * a: a digit of it is twice the digit of a there, with one more
        \* when the digit after is 5 or more
        Double[a \in Seq(STRING)] ==
            (IF a # <<>> /\ DigitValues[a[1]] >= 5 THEN <<"1">> ELSE <<>>)
                \o [i \in 1..Len(a) |->
                        Digits[((2 * DigitValues[a[i]]
                                  + (IF i < Len(a) /\ DigitValues[a[i + 1]] >= 5
                                     THEN 1 ELSE 0)) % 10) + 1]]
        \* a \div 2^n and a * 2^n
        HalvedInt[a \in Seq(STRING), n \in Nat] ==
            IF n = 0 THEN a
            ELSE IF n = 1 THEN HalfInt[a]
            ELSE HalvedInt[HalvedInt[a, n \div 2], n - (n \div 2)]
        Doubled[a \in Seq(STRING), n \in Nat] ==
            IF n = 0 THEN a
            ELSE IF n = 1 THEN Double[a]
            ELSE Doubled[Doubled[a, n \div 2], n - (n \div 2)]
        \* the number of binary digits of a
        BitLength[a \in Seq(STRING)] ==
            IF a = <<>> THEN 0
            ELSE IF Len(a) > 3 THEN 8 + BitLength[HalvedInt[a, 8]]
            ELSE 1 + BitLength[HalfInt[a]]
        \* 2^31, 2^52 and 2^53
        two31 == <<"2", "1", "4", "7", "4", "8", "3", "6", "4", "8">>
        two52 == <<"4", "5", "0", "3", "5", "9", "9", "6", "2", "7", "3", "7", "0", "4",
                   "9", "6">>
        two53 == <<"9", "0", "0", "7", "1", "9", "9", "2", "5", "4", "7", "4", "0", "9",
                   "9", "2">>
        \* the number of the whole part W and the fraction digits f
        Made[neg \in BOOLEAN, W \in Seq(STRING), f \in Seq(STRING)] ==
            IF Less(W, two31) THEN Num(neg, RadixValue(W, 10), f) ELSE BigNum(neg, W, f)
        \* q * 2^e, for a q of at most 53 binary digits or 2^53: Infinity from
        \* 2^1024 on
        Back[neg \in BOOLEAN, q \in Seq(STRING), e \in Nat] ==
            IF e > 971 \/ (e = 971 /\ ~Less(q, two53)) THEN Infinite(neg)
            ELSE Made[neg, Doubled[q, e], <<>>]
        \* a * 2^e plus what was cut off below it, to 53 binary digits: a is
        \* halved until it has 53; round is the binary digit cut off last,
        \* sticky whether anything is left below that one; a half goes to the
        \* even neighbour
        Shift[neg \in BOOLEAN, a \in Seq(STRING), round \in BOOLEAN, sticky \in BOOLEAN,
              e \in Nat] ==
            IF Less(a, two53)
            THEN Back[neg, IF round /\ (sticky \/ Odd(a)) THEN Increment[a] ELSE a, e]
            ELSE Shift[neg, HalfInt[a], Odd(a), sticky \/ round, e + 1]
        \* the halvings of W done at once, a0 = W \div 2^e0 keeping more than
        \* 53 binary digits: what they cut off is a0 * 2^e0 # W
        Chunked[neg \in BOOLEAN, W \in Seq(STRING), a0 \in Seq(STRING), e0 \in Nat,
                round \in BOOLEAN, sticky \in BOOLEAN] ==
            Shift[neg, a0, e0 = 0 /\ round,
                  sticky \/ (e0 > 0 /\ (round \/ Doubled[a0, e0] # W)), e0]
        \* a number of binary digits that W has for sure, less 54: 10^(n-1)
        \* has more than 3.321928 * (n - 1) of them
        Coarse(W) ==
            IF Len(W) < 18 THEN 0 ELSE (((Len(W) - 1) * 3321928) \div 1000000) - 53
        \* the double next to W + 0.f, an integer: f is empty or W is 2^52 or
        \* more
        Integer[neg \in BOOLEAN, W \in Seq(STRING), f \in Seq(STRING)] ==
            Chunked[neg, W, HalvedInt[W, Coarse(W)], Coarse(W),
                    f # <<>> /\ DigitValues[f[1]] >= 5, f # <<>> /\ f # <<"5">>]
        \* ---- fractions, as their decimal digits
        \* a <= b, for the digits of two fractions
        FracLeq[a \in Seq(STRING), b \in Seq(STRING)] ==
            LET At(x, i) == IF i <= Len(x) THEN DigitValues[x[i]] ELSE 0
            IN  \A i \in 1..Len(a) :
                    (\A j \in 1..(i - 1) : At(a, j) = At(b, j)) => At(a, i) <= At(b, i)
        \* 1 - f, for the digits f of a fraction that ends in a digit above 0
        Complement(f) ==
            [i \in 1..Len(f) |->
                Digits[(IF i = Len(f) THEN 10 ELSE 9) - DigitValues[f[i]] + 1]] \o <<>>
        \* the digits of half of the fraction x, which ends in an odd digit:
        \* a digit of it is half of the digit of x there, with ten more when
        \* the digit before is odd
        Half(x) ==
            [i \in 1..(Len(x) + 1) |->
                IF i > Len(x) THEN "5"
                ELSE Digits[(((IF i > 1 /\ DigitValues[x[i - 1]] % 2 = 1 THEN 10 ELSE 0)
                                + DigitValues[x[i]]) \div 2) + 1]] \o <<>>
        \* the digits of acc halved k times
        Halved[acc \in Seq(STRING), k \in Nat] ==
            IF k = 0 THEN acc
            ELSE IF k = 1 THEN Half(acc)
            ELSE Halved[Halved[acc, k \div 2], k - (k \div 2)]
        \* the digits of 2^-k
        Pow2Neg(k) == Halved[<<"5">>, k - 1]
        \* half of the smallest double, 2^-1075 = 2.4703282292062327208e-324
        underflow == <<"2", "4", "7", "0", "3", "2", "8", "2", "2", "9", "2", "0",
                       "6", "2", "3", "2", "7", "2", "0", "8">>
        \* the double next to W + 0.f, for an f that is not empty and a W
        \* below 2^52; halfUlp is half the distance between W and the doubles
        \* next to it
        Nearest[neg \in BOOLEAN, W \in Seq(STRING), f \in Seq(STRING),
                halfUlp \in Seq(STRING)] ==
            Made[neg,
                 IF W = <<>> \/ ~FracLeq[f, halfUlp]
                 THEN (IF FracLeq[Complement(f), halfUlp] THEN Increment[W] ELSE W)
                 ELSE W,
                 IF (W # <<>> /\ FracLeq[f, halfUlp]) \/ FracLeq[Complement(f), halfUlp]
                 THEN <<>> ELSE <<"~">>]
        \* the number of the whole part W and the fraction digits f, of sig
        \* significant digits, p of them before the point
        Rounded[neg \in BOOLEAN, W \in Seq(STRING), f \in Seq(STRING), sig \in Nat,
                p \in Int] ==
            IF f = <<>> \/ ~Less(W, two52) THEN Integer[neg, W, f]
            \* a literal of at most 15 significant digits is held as it is
            ELSE IF sig <= 15 /\ p > -307 THEN Made[neg, W, f]
            ELSE Nearest[neg, W, f, Pow2Neg(54 - BitLength[W])]
        \* the number of the significant digits D, p of them before the point
        Scaled[neg \in BOOLEAN, D \in Seq(STRING), p \in Int] ==
            IF D = <<>> THEN Num(neg, 0, <<>>)
            ELSE IF p > 309 THEN Infinite(neg)
            ELSE IF p < -323 \/ (p = -323 /\ FracLeq[D, underflow]) THEN Num(neg, 0, <<>>)
            ELSE Rounded[neg,
                         IF p <= 0 THEN <<>>
                         ELSE IF p >= Len(D) THEN D \o Zeros(p - Len(D))
                         ELSE SubSeq(D, 1, p),
                         IF p <= 0 THEN Zeros(0 - p) \o D
                         ELSE IF p >= Len(D) THEN <<>> ELSE SubSeq(D, p + 1, Len(D)),
                         Len(D), p]
        \* the digits all of a literal, len of them before the point, times
        \* ten to the exp
        Value[neg \in BOOLEAN, all \in Seq(STRING), len \in Nat, exp \in Int] ==
            Scaled[neg, StripZeros(SubSeq(all, LeadZeros(all) + 1, Len(all))),
                   len + exp - LeadZeros(all)]
        \* the exponent part of a literal, if it has one: ed are the digits
        \* after its e and its sign
        Exponent[neg \in BOOLEAN, all \in Seq(STRING), len \in Nat, hasExp \in BOOLEAN,
                 expNeg \in BOOLEAN, ed \in Seq(STRING)] ==
            IF hasExp /\ (ed = <<>> \/ DigitPrefix(ed) # ed) THEN NotANumber
            ELSE Value[neg, all, len,
                       IF ~hasExp THEN 0
                       ELSE (IF expNeg THEN -1 ELSE 1)
                            * (IF Len(ed) - LeadZeros(ed) > 5 THEN 99999
                               ELSE RadixValue(SubSeq(ed, LeadZeros(ed) + 1, Len(ed)), 10))]
        \* what follows the digits of a literal: nothing, or e [sign] digits
        AfterDigits[neg \in BOOLEAN, ip \in Seq(STRING), fp \in Seq(STRING),
                    rest \in Seq(STRING)] ==
            IF ip = <<>> /\ fp = <<>> THEN NotANumber
            ELSE IF rest # <<>> /\ Head(rest) \notin {"e", "E"} THEN NotANumber
            ELSE Exponent[neg, ip \o fp, Len(ip), rest # <<>>,
                          Len(rest) > 1 /\ rest[2] = "-",
                          IF Len(rest) > 1 /\ rest[2] \in {"-", "+"}
                          THEN SubSeq(rest, 3, Len(rest))
                          ELSE SubSeq(rest, 2, Len(rest))]
        \* what follows the whole part ip of a literal: [. digits] and the rest
        AfterInt[neg \in BOOLEAN, ip \in Seq(STRING), rest \in Seq(STRING)] ==
            AfterDigits[neg, ip,
                        IF rest # <<>> /\ Head(rest) = "." THEN DigitPrefix(Tail(rest))
                        ELSE <<>>,
                        IF rest # <<>> /\ Head(rest) = "."
                        THEN SubSeq(rest, Len(DigitPrefix(Tail(rest))) + 2, Len(rest))
                        ELSE rest]
        \* Infinity or a decimal literal: digits [. digits] [e [sign] digits]
        Unsigned[neg \in BOOLEAN, ip \in Seq(STRING), body \in Seq(STRING)] ==
            AfterInt[neg, ip, SubSeq(body, Len(ip) + 1, Len(body))]
        Decimal[neg \in BOOLEAN, body \in Seq(STRING)] ==
            IF body = <<"I", "n", "f", "i", "n", "i", "t", "y">> THEN Infinite(neg)
            ELSE Unsigned[neg, DigitPrefix(body), body]
        \* ---- a 0x, 0o or 0b literal, of w binary digits to the digit
        \* its binary digits, without zeros at the start
        Bits(digits, w) ==
            [j \in 1..(Len(digits) * w) |->
                (DigitValues[digits[((j - 1) \div w) + 1]]
                    \div (2 ^ (w - 1 - ((j - 1) % w)))) % 2] \o <<>>
        StripBits[b \in Seq(Nat)] ==
            IF \A i \in 1..Len(b) : b[i] = 0 THEN <<>>
            ELSE SubSeq(b, CHOOSE i \in 1..Len(b) :
                                b[i] = 1 /\ \A j \in 1..(i - 1) : b[j] = 0, Len(b))
        \* the decimal digits of the first i binary digits b
        WithBit[a \in Seq(STRING), bit \in Nat] ==
            IF bit = 1 THEN Increment[Double[a]] ELSE Double[a]
        FromBits[b \in Seq(Nat), i \in Nat] ==
            IF i = 0 THEN <<>>
            ELSE IF i < 4 THEN WithBit[FromBits[b, i - 1], b[i]]
            ELSE WithBit[WithBit[WithBit[WithBit[FromBits[b, i - 4], b[i - 3]],
                                         b[i - 2]], b[i - 1]], b[i]]
        \* the first 53 binary digits, one more when the digits cut off are
        \* above a half or are a half and the last digit kept is odd
        RadixBits[b \in Seq(Nat)] ==
            Back[FALSE,
                 IF /\ Len(b) > 53 /\ b[54] = 1
                    /\ (b[53] = 1 \/ \E j \in 55..Len(b) : b[j] = 1)
                 THEN Increment[FromBits[b, 53]]
                 ELSE FromBits[b, IF Len(b) > 53 THEN 53 ELSE Len(b)],
                 IF Len(b) > 53 THEN Len(b) - 53 ELSE 0]
        RadixDigits[digits \in Seq(STRING), w \in Nat] ==
            IF digits = <<>>
               \/ \E i \in 1..Len(digits) :
                    digits[i] \notin DOMAIN DigitValues \/ DigitValues[digits[i]] >= 2 ^ w
            THEN NotANumber
            ELSE RadixBits[StripBits[Bits(digits, w)]]
        \* a literal of the radix 2^w its first two characters name, w = 0
        \* for none
        Prefixed[s \in Seq(STRING), w \in Nat] ==
            IF w # 0 THEN RadixDigits[SubSeq(s, 3, Len(s)), w]
            ELSE Decimal[Head(s) = "-", IF Head(s) \in {"-", "+"} THEN Tail(s) ELSE s]
        Literal[s \in Seq(STRING)] ==
            IF s = <<>> THEN IntNum(0)
            ELSE Prefixed[s, IF Len(s) < 2 \/ s[1] # "0" THEN 0
                             ELSE IF s[2] \in {"x", "X"} THEN 4
                             ELSE IF s[2] \in {"o", "O"} THEN 3
                             ELSE IF s[2] \in {"b", "B"} THEN 1
                             ELSE 0]
    IN  Literal[Trim(tok)]

\* parseInt(s, 10): leading white space, an optional sign, then the digit
\* prefix, whose value is rounded as Number rounds it
ParseInt(s) ==
    LET Signed[neg \in BOOLEAN, digits \in Seq(STRING)] ==
            IF digits = <<>> THEN NotANumber
            ELSE [ToNumber(digits) EXCEPT !.neg = neg]
        Parsed[t \in Seq(STRING)] ==
            IF t # <<>> /\ Head(t) \in {"-", "+"}
            THEN Signed[Head(t) = "-", DigitPrefix(Tail(t))]
            ELSE Signed[FALSE, DigitPrefix(t)]
    IN  Parsed[TrimLeft(s)]

\* ------------------------------------------------------------ sorting
\* [...selected].sort((a, b) => a - b).  Array.prototype.sort is the
\* engine's (V8, third_party/v8/builtins/array-sort.tq), and the definitions
\* from here to SortAsc follow it under its names: the runs of the array are
\* counted one after the other (a descending run is reversed), a run shorter
\* than the minimal run length is made that long by binary insertion, and the
\* runs are merged as they pile up, by galloping when one of the two keeps
\* winning.  A comparison whose result is NaN counts as 0.  Positions are
\* counted from 0, as in the code.

\* a < b, for the decimal digits of two whole numbers
LessDigits(a, b) ==
    \/ Len(a) < Len(b)
    \/ /\ Len(a) = Len(b)
       /\ \E i \in 1..Len(a) :
            /\ DigitValues[a[i]] < DigitValues[b[i]]
            /\ \A j \in 1..(i - 1) : a[j] = b[j]

\* f < g, for the digits of two fractions; a fraction that is not
\* held by its digits is above none but 0
LessFrac(f, g) ==
    \E i \in 1..Len(g) :
        /\ \A j \in 1..(i - 1) : j <= Len(f) /\ f[j] = g[j]
        /\ \/ i > Len(f)
           \/ /\ f[i] \in DOMAIN DigitValues /\ g[i] \in DOMAIN DigitValues
              /\ DigitValues[f[i]] < DigitValues[g[i]]

\* exact numbers are below the big ones, and these below Infinity
Rank(x) == IF x.size = "exact" THEN 0 ELSE IF x.size = "big" THEN 1 ELSE 2

\* |a| < |b|; Infinity - Infinity is NaN
LessMagnitude(a, b) ==
    \/ Rank(a) < Rank(b)
    \/ /\ a.size = "exact" /\ b.size = "exact"
       /\ a.whole < b.whole \/ (a.whole = b.whole /\ LessFrac(a.frac, b.frac))
    \/ /\ a.size = "big" /\ b.size = "big"
       /\ \/ LessDigits(a.digits, b.digits)
          \/ a.digits = b.digits /\ LessFrac(a.frac, b.frac)

\* 0 and -0
IsZero(x) == x.size = "exact" /\ x.whole = 0 /\ x.frac = <<>>

\* (a, b) => a - b is negative; with NaN on either side it is NaN
Below(a, b) ==
    /\ ~a.nan /\ ~b.nan
    /\ IF a.neg = b.neg
       THEN (IF a.neg THEN LessMagnitude(b, a) ELSE LessMagnitude(a, b))
       ELSE a.neg /\ ~(IsZero(a) /\ IsZero(b))

\* ComputeMinRunLength
RECURSIVE MinRunLength(_, _)
MinRunLength(n, r) ==
    IF n >= 64 THEN MinRunLength(n \div 2, IF n % 2 = 1 THEN 1 ELSE r)
    ELSE n + r

\* ReverseRange
Reverse(x) == [i \in 1..Len(x) |-> x[Len(x) + 1 - i]] \o <<>>

\* the n elements of a from position from on
Slice(a, from, n) == SubSeq(a, from + 1, from + n)

\* Copy: a with the elements t put at position dest and after it
Put(a, dest, t) == SubSeq(a, 1, dest) \o t \o SubSeq(a, dest + Len(t) + 1, Len(a))

\* the first of the positions breaks, or high when there is none
Ends(a, descending, breaks, high) ==
    IF breaks = {} THEN high ELSE CHOOSE i \in breaks : \A j \in breaks : i <= j

\* CountAndMakeRun: where the run ends that has reached position idx: at
\* the first element that does not go on as the run began
CountedRunEnd(a, descending, idx, high) ==
    Ends(a, descending,
         {i \in idx..(high - 1) : descending # Below(a[i + 1], a[i])}, high)

\* CountAndMakeRun: the length of the run that begins at low
CountRun(a, low, high) ==
    IF low + 1 = high THEN 1
    ELSE CountedRunEnd(a, Below(a[low + 2], a[low + 1]), low + 2, high) - low

\* BinaryInsertionSort: where the pivot goes among the elements at
\* left .. right - 1 of a
RECURSIVE Search(_, _, _, _)
Search(a, pivot, left, right) ==
    IF left >= right THEN left
    ELSE IF Below(pivot, a[left + ((right - left) \div 2) + 1])
         THEN Search(a, pivot, left, left + ((right - left) \div 2))
    ELSE Search(a, pivot, left + ((right - left) \div 2) + 1, right)

\* a with the element at start moved to position left
Moved(a, start, left) ==
    SubSeq(a, 1, left) \o <<a[start + 1]>> \o SubSeq(a, left + 1, start)
        \o SubSeq(a, start + 2, Len(a))

\* BinaryInsertionSort: the elements at low .. start - 1 are in order, and
\* those up to high - 1 are put in
RECURSIVE Insert(_, _, _, _)
Insert(a, low, start, high) ==
    IF a = <<>> \/ start >= high THEN a
    ELSE IF start + 1 = high
    THEN Moved(a, start, Search(a, a[start + 1], low, start))
    ELSE Insert(Insert(a, low, start, start + ((high - start) \div 2)),
                low, start + ((high - start) \div 2), high)

\* GallopLeft (keyFirst = FALSE: the comparisons are of an element with the
\* key) and GallopRight (keyFirst = TRUE: of the key with an element).  The
\* gallop from the hint, to the right or to the left: <<lastOfs, offset>>
\* when it stops
RECURSIVE Gallop(_, _, _, _, _, _, _, _)
Gallop(arr, key, keyFirst, origin, right, maxOfs, lastOfs, offset) ==
    IF offset >= maxOfs THEN <<lastOfs, offset>>
    ELSE IF (IF keyFirst
             THEN Below(key, arr[(IF right THEN origin + offset
                                  ELSE origin - offset) + 1])
             ELSE Below(arr[(IF right THEN origin + offset
                             ELSE origin - offset) + 1], key))
            = (keyFirst = right)
         THEN <<lastOfs, offset>>
    ELSE Gallop(arr, key, keyFirst, origin, right, maxOfs, offset, (2 * offset) + 1)

\* the binary search between lastOfs and offset
RECURSIVE Bisect(_, _, _, _, _, _)
Bisect(arr, key, keyFirst, base, lastOfs, offset) ==
    IF lastOfs >= offset THEN offset
    ELSE IF keyFirst
    THEN (IF Below(key, arr[base + lastOfs + ((offset - lastOfs) \div 2) + 1])
          THEN Bisect(arr, key, keyFirst, base, lastOfs,
                      lastOfs + ((offset - lastOfs) \div 2))
          ELSE Bisect(arr, key, keyFirst, base,
                      lastOfs + ((offset - lastOfs) \div 2) + 1, offset))
    ELSE (IF Below(arr[base + lastOfs + ((offset - lastOfs) \div 2) + 1], key)
          THEN Bisect(arr, key, keyFirst, base,
                      lastOfs + ((offset - lastOfs) \div 2) + 1, offset)
          ELSE Bisect(arr, key, keyFirst, base, lastOfs,
                      lastOfs + ((offset - lastOfs) \div 2)))

\* the offsets g of the gallop are made offsets from base, and the place of
\* the key is searched between them
Galloped(arr, key, keyFirst, base, hint, right, maxOfs, g) ==
    IF right
    THEN Bisect(arr, key, keyFirst, base, g[1] + hint + 1,
                (IF g[2] > maxOfs THEN maxOfs ELSE g[2]) + hint)
    ELSE Bisect(arr, key, keyFirst, base,
                (hint - (IF g[2] > maxOfs THEN maxOfs ELSE g[2])) + 1, hint - g[1])

\* the gallop to the right or to the left of the hint
GallopFrom(arr, key, keyFirst, base, length, hint, right) ==
    Galloped(arr, key, keyFirst, base, hint, right,
             IF right THEN length - hint ELSE hint + 1,
             Gallop(arr, key, keyFirst, base + hint, right,
                    IF right THEN length - hint ELSE hint + 1, 0, 1))

\* GallopRight(arr, key, base, length, hint) with keyFirst, GallopLeft
\* without: the direction is given by the element at the hint
GallopBy(arr, key, keyFirst, base, length, hint) ==
    GallopFrom(arr, key, keyFirst, base, length, hint,
               IF keyFirst THEN ~Below(key, arr[base + hint + 1])
               ELSE Below(arr[base + hint + 1], key))

\* MergeLow and MergeHigh.  m holds the work array a, the copy temp of the
\* shorter run, the cursors dest, ct (cursorTemp) and cb (cursorB) or ca
\* (cursorA), the lengths la and lb left of the two runs, the wins wa and wb
\* (nofWinsA, nofWinsB), mg (minGallop), and at: the loop the merge is in,
\* "done" after its last statement.

\* MergeLow, label Succeed: what is left of temp is copied
LowSucceed(m) ==
    [m EXCEPT !.a = IF m.la > 0 THEN Put(@, m.dest, Slice(m.temp, m.ct, m.la)) ELSE @,
              !.at = "done"]

\* MergeLow, label CopyB: what is left of run B is copied, then the last
\* element of temp
LowCopyB(m) ==
    [m EXCEPT !.a = [Put(@, m.dest, Slice(m.a, m.cb, m.lb))
                        EXCEPT ![m.dest + m.lb + 1] = m.temp[m.ct + 1]],
              !.at = "done"]

\* workArray[dest++] = workArray[cursorB++]; --lengthB
LowTakeB(m) ==
    [m EXCEPT !.a = [@ EXCEPT ![m.dest + 1] = m.a[m.cb + 1]],
              !.dest = @ + 1, !.cb = @ + 1, !.lb = @ - 1]

\* workArray[dest++] = tempArray[cursorTemp++]; --lengthA
LowTakeA(m) ==
    [m EXCEPT !.a = [@ EXCEPT ![m.dest + 1] = m.temp[m.ct + 1]],
              !.dest = @ + 1, !.ct = @ + 1, !.la = @ - 1]

\* n elements of temp are copied (nofWinsA of a gallop)
LowCopiedA(m, n) ==
    IF n = 0 THEN m
    ELSE [m EXCEPT !.a = Put(@, m.dest, Slice(m.temp, m.ct, n)),
                   !.dest = @ + n, !.ct = @ + n, !.la = @ - n]

\* n elements of run B are copied (nofWinsB of a gallop)
LowCopiedB(m, n) ==
    IF n = 0 THEN m
    ELSE [m EXCEPT !.a = Put(@, m.dest, Slice(m.a, m.cb, n)),
                   !.dest = @ + n, !.cb = @ + n, !.lb = @ - n]

\* the galloping loop is entered, or entered again
Gallops(m) == [m EXCEPT !.mg = IF @ > 2 THEN @ - 1 ELSE 1, !.at = "gallop"]

\* the galloping loop is left
GallopsNoMore(m) == [m EXCEPT !.mg = @ + 1, !.wa = 0, !.wb = 0, !.at = "one"]

\* the end of a turn of the galloping loop: while (nofWinsA >=
\* kMinGallopWins || nofWinsB >= kMinGallopWins)
LowGallopEnd(m, wa, wb) ==
    IF m.la = 1 THEN LowCopyB(m)
    ELSE IF wa >= 7 \/ wb >= 7 THEN Gallops(m)
    ELSE GallopsNoMore(m)

\* after the GallopLeft of the turn
LowAfterB(m, wa, wb) ==
    IF wb > 0 /\ m.lb = wb THEN LowSucceed(LowCopiedB(m, wb))
    ELSE LowGallopEnd(LowTakeA(LowCopiedB(m, wb)), wa, wb)

\* the second half of the turn: nofWinsB = GallopLeft(...)
LowGallopB(m, wa) ==
    IF m.lb = 0 THEN LowSucceed(m)
    ELSE LowAfterB(m, wa, GallopBy(m.a, m.temp[m.ct + 1], FALSE, m.cb, m.lb, 0))

\* after the GallopRight of the turn
LowAfterA(m, wa) ==
    IF wa > 0 /\ m.la - wa = 1 THEN LowCopyB(LowCopiedA(m, wa))
    ELSE IF wa > 0 /\ m.la = wa THEN LowSucceed(LowCopiedA(m, wa))
    ELSE LowGallopB(LowTakeB(LowCopiedA(m, wa)), wa)

\* one turn of the galloping loop: nofWinsA = GallopRight(...)
LowGallop(m) ==
    LowAfterA(m, GallopBy(m.temp, m.a[m.cb + 1], TRUE, m.ct, m.la, 0))

\* run B has won: if (nofWinsB >= minGallop) break
LowWonB(m) ==
    IF m.lb = 0 THEN LowSucceed(m)
    ELSE IF m.wb >= m.mg THEN Gallops([m EXCEPT !.mg = @ + 1])
    ELSE m

\* run A has won: if (nofWinsA >= minGallop) break
LowWonA(m) ==
    IF m.la = 1 THEN LowCopyB(m)
    ELSE IF m.wa >= m.mg THEN Gallops([m EXCEPT !.mg = @ + 1])
    ELSE m

\* one turn of the straightforward loop
LowOne(m) ==
    IF Below(m.a[m.cb + 1], m.temp[m.ct + 1])
    THEN LowWonB([LowTakeB(m) EXCEPT !.wb = @ + 1, !.wa = 0])
    ELSE LowWonA([LowTakeA(m) EXCEPT !.wa = @ + 1, !.wb = 0])

\* after the first element is copied: if (--lengthB == 0) goto Succeed;
\* if (lengthA == 1) goto CopyB
LowBegun(m) ==
    IF m.lb = 0 THEN LowSucceed(m)
    ELSE IF m.la = 1 THEN LowCopyB(m)
    ELSE m

\* In MergeHigh temp is the copy of run B and the cursors go down.

\* MergeHigh, label Succeed
HighSucceed(m) ==
    [m EXCEPT !.a = IF m.lb > 0
                    THEN Put(@, m.dest - (m.lb - 1), Slice(m.temp, 0, m.lb))
                    ELSE @,
              !.at = "done"]

\* MergeHigh, label CopyA
HighCopyA(m) ==
    [m EXCEPT !.a = [Put(@, (m.dest - m.la) + 1, Slice(m.a, (m.ca - m.la) + 1, m.la))
                        EXCEPT ![(m.dest - m.la) + 1] = m.temp[m.ct + 1]],
              !.at = "done"]

\* workArray[dest--] = workArray[cursorA--]; --lengthA
HighTakeA(m) ==
    [m EXCEPT !.a = [@ EXCEPT ![m.dest + 1] = m.a[m.ca + 1]],
              !.dest = @ - 1, !.ca = @ - 1, !.la = @ - 1]

\* workArray[dest--] = tempArray[cursorTemp--]; --lengthB
HighTakeB(m) ==
    [m EXCEPT !.a = [@ EXCEPT ![m.dest + 1] = m.temp[m.ct + 1]],
              !.dest = @ - 1, !.ct = @ - 1, !.lb = @ - 1]

\* n elements of run A are copied
HighCopiedA(m, n) ==
    IF n = 0 THEN m
    ELSE [m EXCEPT !.a = Put(@, (m.dest - n) + 1, Slice(m.a, (m.ca - n) + 1, n)),
                   !.dest = @ - n, !.ca = @ - n, !.la = @ - n]

\* n elements of temp are copied
HighCopiedB(m, n) ==
    IF n = 0 THEN m
    ELSE [m EXCEPT !.a = Put(@, (m.dest - n) + 1, Slice(m.temp, (m.ct - n) + 1, n)),
                   !.dest = @ - n, !.ct = @ - n, !.lb = @ - n]

\* the end of a turn of the galloping loop
HighGallopEnd(m, wa, wb) ==
    IF m.la = 0 THEN HighSucceed(m)
    ELSE IF wa >= 7 \/ wb >= 7 THEN Gallops(m)
    ELSE GallopsNoMore(m)

\* after the GallopLeft of the turn
HighAfterB(m, wa, wb) ==
    IF wb > 0 /\ m.lb - wb = 1 THEN HighCopyA(HighCopiedB(m, wb))
    ELSE IF wb > 0 /\ m.lb = wb THEN HighSucceed(HighCopiedB(m, wb))
    ELSE HighGallopEnd(HighTakeA(HighCopiedB(m, wb)), wa, wb)

\* the second half of the turn: nofWinsB = lengthB - GallopLeft(...)
HighGallopB(m, wa) ==
    IF m.lb = 1 THEN HighCopyA(m)
    ELSE HighAfterB(m, wa,
            m.lb - GallopBy(m.temp, m.a[m.ca + 1], FALSE, 0, m.lb, m.lb - 1))

\* after the GallopRight of the turn
HighAfterA(m, wa) ==
    IF wa > 0 /\ m.la = wa THEN HighSucceed(HighCopiedA(m, wa))
    ELSE HighGallopB(HighTakeB(HighCopiedA(m, wa)), wa)

\* one turn of the galloping loop: nofWinsA = lengthA - GallopRight(...)
HighGallop(m) ==
    HighAfterA(m, m.la - GallopBy(m.a, m.temp[m.ct + 1], TRUE, m.baseA, m.la,
                                  m.la - 1))

\* run A has won
HighWonA(m) ==
    IF m.la = 0 THEN HighSucceed(m)
    ELSE IF m.wa >= m.mg THEN Gallops([m EXCEPT !.mg = @ + 1])
    ELSE m

\* run B has won
HighWonB(m) ==
    IF m.lb = 1 THEN HighCopyA(m)
    ELSE IF m.wb >= m.mg THEN Gallops([m EXCEPT !.mg = @ + 1])
    ELSE m

\* one turn of the straightforward loop
HighOne(m) ==
    IF Below(m.temp[m.ct + 1], m.a[m.ca + 1])
    THEN HighWonA([HighTakeA(m) EXCEPT !.wa = @ + 1, !.wb = 0])
    ELSE HighWonB([HighTakeB(m) EXCEPT !.wb = @ + 1, !.wa = 0])

\* after the first element is copied: if (--lengthA == 0) goto Succeed;
\* if (lengthB == 1) goto CopyA
HighBegun(m) ==
    IF m.la = 0 THEN HighSucceed(m)
    ELSE IF m.lb = 1 THEN HighCopyA(m)
    ELSE m

\* the next n turns of the loops of a merge, or as many as there are
RECURSIVE Turns(_, _)
Turns(m, n) ==
    IF m.at = "done" \/ n = 0 THEN m
    ELSE IF n > 1 THEN Turns(Turns(m, n \div 2), n - (n \div 2))
    ELSE IF m.low THEN (IF m.at = "one" THEN LowOne(m) ELSE LowGallop(m))
    ELSE (IF m.at = "one" THEN HighOne(m) ELSE HighGallop(m))

\* MergeLow: run A, the shorter one, is copied to temp and the runs are
\* merged from the left
MergeLow(a, mg, baseA, lengthA, baseB, lengthB) ==
    Turns(LowBegun(LowTakeB(
            [a |-> a, temp |-> Slice(a, baseA, lengthA), dest |-> baseA, ct |-> 0,
             cb |-> baseB, ca |-> 0, baseA |-> baseA, la |-> lengthA, lb |-> lengthB,
             wa |-> 0, wb |-> 0, mg |-> mg, low |-> TRUE, at |-> "one"])),
          lengthA + lengthB)

\* MergeHigh: run B is copied to temp and the runs are merged from the right
MergeHigh(a, mg, baseA, lengthA, baseB, lengthB) ==
    Turns(HighBegun(HighTakeA(
            [a |-> a, temp |-> Slice(a, baseB, lengthB),
             dest |-> (baseB + lengthB) - 1, ct |-> lengthB - 1, cb |-> 0,
             ca |-> (baseA + lengthA) - 1, baseA |-> baseA,
             la |-> lengthA, lb |-> lengthB,
             wa |-> 0, wb |-> 0, mg |-> mg, low |-> FALSE, at |-> "one"])),
          lengthA + lengthB)

\* MergeAt: the runs at i and i + 1 of the stack are merged; st holds the
\* work array a, minGallop mg and the stack runs of <<base, length>>.

\* MergeAt, once the elements of B that are in place are left out: if
\* (lengthA <= lengthB) MergeLow(...) else MergeHigh(...)
MergeTrimmedB(st, baseA, lengthA, baseB, lengthB) ==
    IF lengthB = 0 THEN [a |-> st.a, mg |-> st.mg]
    ELSE IF lengthA <= lengthB THEN MergeLow(st.a, st.mg, baseA, lengthA, baseB, lengthB)
    ELSE MergeHigh(st.a, st.mg, baseA, lengthA, baseB, lengthB)

\* MergeAt, once the elements of A that are in place are left out:
\* lengthB = GallopLeft(workArray, workArray[baseA + lengthA - 1], ...)
MergeTrimmedA(st, baseA, lengthA, baseB, lengthB) ==
    IF lengthA = 0 THEN [a |-> st.a, mg |-> st.mg]
    ELSE MergeTrimmedB(st, baseA, lengthA, baseB,
            GallopBy(st.a, st.a[baseA + lengthA], FALSE, baseB, lengthB, lengthB - 1))

\* baseA = baseA + k; lengthA = lengthA - k
MergeFrom(st, baseA, lengthA, baseB, lengthB, k) ==
    MergeTrimmedA(st, baseA + k, lengthA - k, baseB, lengthB)

\* k = GallopRight(workArray, workArray[baseB], baseA, lengthA, 0)
MergeRuns(st, A, B) ==
    MergeFrom(st, A[1], A[2], B[1], B[2],
              GallopBy(st.a, st.a[B[1] + 1], TRUE, A[1], A[2], 0))

\* the stack after the merge m: the run at i has the length of both, and
\* the run above i + 1 slides down
Merged(st, i, m) ==
    [a |-> m.a, mg |-> m.mg,
     runs |-> SubSeq(st.runs, 1, i)
                \o << <<st.runs[i + 1][1], st.runs[i + 1][2] + st.runs[i + 2][2]>> >>
                \o SubSeq(st.runs, i + 3, Len(st.runs))]

MergeAt(st, i) == Merged(st, i, MergeRuns(st, st.runs[i + 1], st.runs[i + 2]))

\* GetPendingRunLength
RunLength(st, n) == st.runs[n + 1][2]

\* RunInvariantEstablished
RunInvariantEstablished(st, n) ==
    n < 2 \/ RunLength(st, n - 2) > RunLength(st, n - 1) + RunLength(st, n)

\* MergeCollapse
RECURSIVE MergeCollapse(_)
MergeCollapse(st) ==
    IF Len(st.runs) <= 1 THEN st
    ELSE IF \/ ~RunInvariantEstablished(st, Len(st.runs) - 1)
            \/ ~RunInvariantEstablished(st, Len(st.runs) - 2)
    THEN MergeCollapse(MergeAt(st,
            IF RunLength(st, Len(st.runs) - 3) < RunLength(st, Len(st.runs) - 1)
            THEN Len(st.runs) - 3 ELSE Len(st.runs) - 2))
    ELSE IF RunLength(st, Len(st.runs) - 2) <= RunLength(st, Len(st.runs) - 1)
    THEN MergeCollapse(MergeAt(st, Len(st.runs) - 2))
    ELSE st

\* MergeForceCollapse
RECURSIVE MergeForceCollapse(_)
MergeForceCollapse(st) ==
    IF Len(st.runs) <= 1 THEN st
    ELSE MergeForceCollapse(MergeAt(st,
            IF /\ Len(st.runs) > 2
               /\ RunLength(st, Len(st.runs) - 3) < RunLength(st, Len(st.runs) - 1)
            THEN Len(st.runs) - 3 ELSE Len(st.runs) - 2))

RECURSIVE Runs(_, _, _)

\* PushRun(sortState, low, currentRunLength); MergeCollapse(sortState)
Pushed(st, low, run, a) ==
    MergeCollapse([a |-> a, mg |-> st.mg, runs |-> Append(st.runs, <<low, run>>)])

\* ArrayTimSortImpl: the run, made as long as forced by BinaryInsertionSort,
\* is pushed, and the loop goes on after it
Forced(st, low, run, forced, made) ==
    Runs(Pushed(st, low, forced,
                IF run < forced
                THEN Insert(made, low, low + run, low + forced)
                ELSE made),
         low + forced, MinRunLength(Len(st.a), 0))

\* ArrayTimSortImpl: the run counted at low; a descending one is reversed,
\* and forcedRunLength = SmiMin(minRunLength, remaining)
Counted(st, low, minRunLength, run) ==
    Forced(st, low, run,
           IF run >= minRunLength THEN run
           ELSE IF minRunLength < Len(st.a) - low THEN minRunLength
           ELSE Len(st.a) - low,
           IF run > 1 /\ Below(st.a[low + 2], st.a[low + 1])
           THEN Put(st.a, low, Reverse(Slice(st.a, low, run)))
           ELSE st.a)

\* ArrayTimSortImpl: the loop over the runs, from position low on, and
\* MergeForceCollapse after it
Runs(st, low, minRunLength) ==
    IF low >= Len(st.a) THEN MergeForceCollapse(st)
    ELSE Counted(st, low, minRunLength, CountRun(st.a, low, Len(st.a)))

\* [...selected].sort((a, b) => a - b): ArrayTimSortImpl, if (length < 2)
\* return; kMinGallopWins is 7
SortAsc(s) ==
    IF Len(s) < 2 THEN s
    ELSE Runs([a |-> s, mg |-> 7, runs |-> <<>>], 0, MinRunLength(Len(s), 0)).a

\* text.match(/\d+/g)?.map(Number) || [], from position i on with the run
\* of digits cur in hand
RECURSIVE ScanDigits(_, _, _)
ScanDigits(s, i, cur) ==
    IF i <= Len(s) /\ IsDigit(s[i]) THEN ScanDigits(s, i + 1, Append(cur, s[i]))
    ELSE (IF cur # <<>> THEN <<ToNumber(cur)>> ELSE <<>>)
            \o (IF i > Len(s) THEN <<>> ELSE ScanDigits(s, i + 1, <<>>))

\* mutant: the matches are sorted, as the submit branch sorts its cells
DigitRunsSorted(s) == SortAsc(ScanDigits(s, 1, <<>>))

DigitRuns(s) == ScanDigits(s, 1, <<>>)

\* Set.has / Set.add / Set.delete on a Set kept in insertion order; the keys
\* are compared by SameValueZero (NaN is NaN, -0 is kept as 0)
SetHas(s, x) ==
    LET key == IF x = Num(TRUE, 0, <<>>) THEN Num(FALSE, 0, <<>>) ELSE x
    IN  \E i \in 1..Len(s) : s[i] = key

SetAdd(s, x) ==
    LET key == IF x = Num(TRUE, 0, <<>>) THEN Num(FALSE, 0, <<>>) ELSE x
    IN  IF SetHas(s, x) THEN s ELSE Append(s, key)

SetDelete(s, x) ==
    LET key == IF x = Num(TRUE, 0, <<>>) THEN Num(FALSE, 0, <<>>) ELSE x
    IN  SelectSeq(s, LAMBDA y : y # key)


\* decimal rendering of a non-negative number, as in `${cellNum}`
RECURSIVE NumToStr(_)
NumToStr(n) ==
    IF n < 10 THEN <<Digits[n + 1]>>
    ELSE NumToStr(n \div 10) \o <<Digits[(n % 10) + 1]>>

\* ------------------------------------------------------------- updates
\* An update of the backend queue.  A text message carries chat and text (an
\* empty text stands for a message without text); a control activation
\* (callback_query) carries the chat and message it was pressed on and its data.
Msg(chat, text) ==
    [kind |-> "message", chat |-> chat, text |-> text, mid |-> 0, data |-> <<>>]

Cb(chat, mid, data) ==
    [kind |-> "callback_query", chat |-> chat, text |-> <<>>, mid |-> mid, data |-> data]

SUBMIT == <<"s", "u", "b", "m", "i", "t">>

SKIP == <<"s", "k", "i", "p">>

CELLPREFIX == <<"c", "e", "l", "l", ":">>

CellData(n) == CELLPREFIX \o NumToStr(n)

\* a typed answer: out of order, and naming a cell the 2 x 1 grid does not have
TextCells == <<" ", "3", " ", "1", " ">>

\* what is left of an update the backend has forgotten
Forgotten == [kind |-> "forgotten", chat |-> 0, text |-> <<>>, mid |-> 0, data |-> <<>>]

UpdateShapes ==
    { Msg(1, <<"h", "i">>), Msg(1, TextCells), Msg(2, TextCells),
      Cb(1, 10, SUBMIT), Cb(1, 10, SKIP), Cb(1, 10, CellData(1)), Cb(1, 10, CellData(2)),
      Cb(1, 10, CELLPREFIX \o <<"x">>), Cb(1, 11, CellData(1)) }

\* ------------------------------------------------------------ keyboard
\* buildGridKeyboard(cols, rows, selected); in a label "OK" stands for the
\* check mark (U+2705) and "NEXT" for the next-track sign (U+23ED U+FE0F)
CellButton(n, sel) ==
    [text |-> IF SetHas(sel, IntNum(n)) THEN <<"OK", " ">> \o NumToStr(n) ELSE NumToStr(n),
     callback_data |-> CellData(n)]

\* mutant: the submit control comes first
ActionRowSubmitFirst(sel) ==
    << [text |-> <<"OK", " ", "S", "u", "b", "m", "i", "t", " ", "(">>
                    \o NumToStr(Len(sel)) \o <<")">>,
        callback_data |-> SUBMIT],
       [text |-> <<"NEXT", " ", "S", "k", "i", "p">>, callback_data |-> SKIP] >>

ActionRow(sel) ==
    << [text |-> <<"NEXT", " ", "S", "k", "i", "p">>, callback_data |-> SKIP],
       [text |-> <<"OK", " ", "S", "u", "b", "m", "i", "t", " ", "(">>
                    \o NumToStr(Len(sel)) \o <<")">>,
        callback_data |-> SUBMIT] >>

\* for (let r ...) { const row = []; for (let c ...) { ...; cellNum++ } ... },
\* then the action row
BuildGridKeyboard(cols, rows, sel) ==
    LET RECURSIVE Loop(_, _, _, _, _)
        Loop(r, c, cellNum, row, kb) ==
            IF r >= rows THEN Append(kb, ActionRow(sel))
            ELSE IF c >= cols THEN Loop(r + 1, 0, cellNum, <<>>, Append(kb, row))
            ELSE Loop(r, c + 1, cellNum + 1, Append(row, CellButton(cellNum, sel)), kb)
    IN  Loop(0, 0, 1, <<>>, <<>>)

\* --------------------------------------------------------------- state
VARIABLES
    now,            \* Date.now(), counted from the entry of the current wait
    hist,           \* every update the backend has received; update_id = index
                    \* (one forgotten before the current wait began: Forgotten)
    backendOffset,  \* the backend has forgotten the updates below this id
    keyboard,       \* inline keyboard shown on the session's message
    lastUpdateId,   \* this._lastUpdateId
    pollInterval,   \* this.pollInterval
    pc,             \* position of the running wait
    callKind,       \* which wait is running
    targetChat,     \* targetChat
    messageId,      \* messageId argument
    grid,           \* <<cols, rows>> arguments
    deadline,       \* deadline
    selected,       \* selected (a Set, in insertion order)
    batch,          \* updates of the current fetch, as update ids
    idx,            \* position of the for loop in batch
    result,         \* what the wait returned
    calls,          \* number of waits started so far
    log,            \* updates this wait acted on: <<update id, act, cell>>
    acted,          \* bag of the update ids acted on by any wait so far
    preCall,        \* update ids pending in the backend when the wait began
    startCursor,    \* the cursor right after the flush of this wait
    flushOk,        \* whether the flush of this wait succeeded
    fetchOk,        \* whether the fetch of the current loop iteration succeeded
    \* --- one attempt of CaptchaRelay.solve
    spc,            \* position of solve
    options,        \* options argument: type, cols, rows (0: not given)
    captchas,       \* what detect returned
    captchaType,    \* captchaType
    reply,          \* what waitForReply returned
    injected,       \* what inject returned
    solveResult,    \* what solve returned
    trail,          \* the calls solve made, in order: [op, args]
    \* --- one call of a function of the injector, detector or annotator
    page,           \* the browser page or image the call works on
    input,          \* the arguments of the call
    ret,            \* what the call returned or raised, and what it did
    \* --- two grid-selection waits under way at once
    sess            \* the locals of each: pc, deadline, wake (when its sleep
                    \* ends), selected, batch, idx, result, start (the cursor
                    \* after its flush), seen (ids fetched), applied (ids acted
                    \* on), req and answer (the request and the answer on their
                    \* way), returns (the branch under way ends with a return)

solveVars == <<spc, options, captchas, captchaType, reply, injected, solveResult, trail>>

channelVars == <<now, hist, backendOffset, keyboard, lastUpdateId, pollInterval, pc,
                 callKind, targetChat, messageId, grid, deadline, selected, batch, idx,
                 result, calls, log, acted, preCall, startCursor, flushOk, fetchOk>>

unitVars == <<page, input, ret, sess>>

vars == <<channelVars, solveVars, unitVars>>

backendVars == <<hist, backendOffset, keyboard>>

callArgs == <<callKind, targetChat, messageId, grid, deadline>>

histVars == <<calls, acted, preCall, startCursor, flushOk>>

waitObs == <<calls, preCall, startCursor, flushOk, fetchOk>>

\* the locals of a wait; they are dropped when the wait returns or raises
locals == <<selected, batch, idx>>

DropLocals == selected' = <<>> /\ batch' = <<>> /\ idx' = 1

NoResult == [tag |-> "none", text |-> <<>>, cells |-> <<>>, skipped |-> FALSE]

NullResult == [tag |-> "null", text |-> <<>>, cells |-> <<>>, skipped |-> FALSE]

TextResult(t) == [tag |-> "text", text |-> t, cells |-> <<>>, skipped |-> FALSE]

CellsResult(c, s) == [tag |-> "cells", text |-> <<>>, cells |-> c, skipped |-> s]

\* solve(page, options = {}): nothing given
NoOptions == [type |-> "auto", cols |-> 0, rows |-> 0]

\* solve has not returned
NoSolveResult == [success |-> FALSE, answer |-> NoResult, type |-> "none", error |-> "none"]

Pending == { i \in 1..Len(hist) : i >= backendOffset }

Max2(a, b) == IF a >= b THEN a ELSE b

MaxOfSeq(s) == CHOOSE m \in {s[i] : i \in 1..Len(s)} : \A i \in 1..Len(s) : s[i] <= m

InitRun ==
    /\ now = 0
    /\ hist = <<>>
    /\ backendOffset = 1
    /\ keyboard = <<>>
    /\ lastUpdateId = InitialUpdateId
    /\ pollInterval = 1   \* config.pollInterval
    /\ pc = "idle"
    /\ callKind = "reply"
    /\ targetChat = ConfigChat
    /\ messageId = 0
    /\ grid = <<1, 1>>
    /\ deadline = 0
    /\ selected = <<>>
    /\ batch = <<>>
    /\ idx = 1
    /\ result = NoResult
    /\ calls = 0
    /\ log = <<>>
    /\ acted = EmptyBag
    /\ preCall = {}
    /\ startCursor = InitialUpdateId
    /\ flushOk = FALSE
    /\ fetchOk = TRUE
    /\ spc = "idle"
    /\ options = NoOptions
    /\ captchas = <<>>
    /\ captchaType = "null"
    /\ reply = NoResult
    /\ injected = FALSE
    /\ solveResult = NoSolveResult
    /\ trail = <<>>
    /\ sess = [s \in {1, 2} |->
                [pc |-> "idle", deadline |-> 0, wake |-> 0, selected |-> <<>>,
                 batch |-> <<>>, idx |-> 1, result |-> NoResult, start |-> 0,
                 seen |-> {}, applied |-> <<>>, req |-> 0, returns |-> FALSE,
                 answer |-> [ok |-> FALSE, result |-> <<>>]]]

\* no call of a single function is under way
NoCall == [tag |-> "none"]

Init ==
    /\ InitRun
    /\ page = NoCall
    /\ input = NoCall
    /\ ret = NoCall

\* --------------------------------------------------------- environment
\* The human (or anyone else) sends a message or presses a control.
\* An arrival is only observable through the next backend request, so it is
\* taken right before one: before a wait begins (the flush) or before the
\* loop test that leads to the next fetch.
Arrive(maxUpdates, maxCalls) ==
    /\ Len(hist) < maxUpdates
    /\ \/ pc = "loop"
       \/ pc \in {"idle", "done", "raised"} /\ calls < maxCalls
    /\ \E u \in UpdateShapes : hist' = Append(hist, u)
    /\ UNCHANGED <<now, backendOffset, keyboard, lastUpdateId, pollInterval, pc,
                   callArgs, selected, batch, idx, result, log, histVars, fetchOk, solveVars, unitVars>>

\* The clock is read by the entry of a wait (to set the deadline) and by the
\* loop test, and only differences of readings matter: the clock is counted
\* from the entry of the wait, and the time a request, the handling of a
\* batch or an overlong sleep takes is taken right before the loop test.
Tick ==
    /\ now < MaxTime
    /\ pc = "loop"
    /\ now' = now + 1
    /\ UNCHANGED <<backendVars, lastUpdateId, pollInterval, pc, callArgs, selected,
                   batch, idx, result, log, histVars, fetchOk, solveVars, unitVars>>

\* ------------------------------------------------------------- backend
\* getUpdates?offset=N : the updates with update_id >= N, in id order, of the
\* allowed kinds; the updates below N are confirmed and forgotten.
\* mutant: the backend hands out the newest update first
BackendGetUpdatesNewestFirst(offset, allowed) ==
    LET ids == SelectSeq([i \in 1..Len(hist) |-> i],
                         LAMBDA i : i >= offset /\ i >= backendOffset
                                    /\ hist[i].kind \in allowed)
    IN  [k \in 1..Len(ids) |-> ids[Len(ids) + 1 - k]]

BackendGetUpdates(offset, allowed) ==
    SelectSeq([i \in 1..Len(hist) |-> i],
              LAMBDA i : i >= offset /\ i >= backendOffset /\ hist[i].kind \in allowed)

\* getUpdates?offset=-1 : the last update only; all earlier ones are forgotten.
BackendLastUpdate == IF Pending = {} THEN <<>> ELSE <<Len(hist)>>


\* ------------------------------------------------------------- channel
\* chatId || this.chatId
TargetOf(chatArg) == IF chatArg = 0 THEN ConfigChat ELSE chatArg

\* mutant: the cursor is left on the update just handled
AckCursorStale(uid) == uid

\* this._lastUpdateId = update.update_id + 1
AckCursor(uid) == uid + 1

\* mutant: the flush leaves the cursor on the last outstanding update
FlushCursorStale(last) == last

\* this._lastUpdateId = data.result[data.result.length - 1].update_id + 1
FlushCursor(last) == last + 1

\* while (Date.now() < deadline)
LoopContinues(t, d) == t < d

\* mutant: an activation only ever selects
ToggleCellAddOnly(sel, n) == SetAdd(sel, n)

\* selected.has(n) ? selected.delete(n) : selected.add(n)
ToggleCell(sel, n) == IF SetHas(sel, n) THEN SetDelete(sel, n) ELSE SetAdd(sel, n)

\* return { cells: [...selected].sort((a, b) => a - b), skipped: false }
SubmitResult(sel) == CellsResult(SortAsc(sel), FALSE)

\* mutant: skip returns the current selection
SkipResultKeepsCells(sel) == CellsResult(SortAsc(sel), TRUE)

\* return { cells: [], skipped: true }
SkipResult(sel) == CellsResult(<<>>, TRUE)

\* mutant: the conversation of the message is not compared
IsTargetTextAnyChat(u, target) == u.kind = "message" /\ u.text # <<>>

\* update.message?.text && String(update.message.chat.id) === targetChat
IsTargetText(u, target) == u.kind = "message" /\ u.text # <<>> /\ u.chat = target

\* the callback_query guards of the grid wait
IsSessionCallback(u, target, mid) ==
    u.kind = "callback_query" /\ u.chat = target /\ u.mid = mid

\* Body of the for loop of waitForReply for one update.
ReplyStep(u, uid, target, cursor) ==
    IF IsTargetText(u, target)
    THEN [cursor |-> AckCursor(uid), ret |-> TRUE, res |-> TextResult(Trim(u.text))]
    ELSE [cursor |-> cursor, ret |-> FALSE, res |-> NoResult]

\* mutant: the submit branch does not return, the loop goes on
ButtonStepSubmitGoesOn(u, uid, target, mid, sel, cursor) ==
    LET stay == [cursor |-> cursor, sel |-> sel, ret |-> FALSE, res |-> NoResult,
                 act |-> "none", cell |-> IntNum(0), ack |-> FALSE]
        \* the text fallback, cells being the numbers matched in the text
        Texted(cells) ==
            IF cells # <<>>
            THEN [stay EXCEPT !.cursor = AckCursor(uid), !.ret = TRUE,
                              !.res = CellsResult(cells, FALSE), !.act = "text"]
            ELSE [stay EXCEPT !.cursor = AckCursor(uid)]
        \* the cell branch, cellNum being the number parsed from the data
        Toggled(cellNum) ==
            [stay EXCEPT !.cursor = AckCursor(uid), !.sel = ToggleCell(sel, cellNum),
                         !.act = "toggle", !.cell = cellNum, !.ack = TRUE]
    IN
    IF IsTargetText(u, target) THEN Texted(DigitRuns(u.text))
    ELSE IF ~IsSessionCallback(u, target, mid) THEN stay
    ELSE IF u.data = SUBMIT
         THEN [stay EXCEPT !.cursor = AckCursor(uid),
                           !.res = SubmitResult(sel), !.act = "submit", !.ack = TRUE]
    ELSE IF u.data = SKIP
         THEN [stay EXCEPT !.cursor = AckCursor(uid), !.ret = TRUE,
                           !.res = SkipResult(sel), !.act = "skip", !.ack = TRUE]
    ELSE IF StartsWith(u.data, CELLPREFIX) THEN Toggled(ParseInt(SplitSecond(u.data)))
    ELSE [stay EXCEPT !.cursor = AckCursor(uid)]

\* Body of the for loop of waitForButtonResponse for one update, backend
\* calls (acknowledge, replace controls) left to the action that uses it.
\*   act : "text", "submit", "skip", "toggle" when the update is acted on
\*   ack : whether the branch acknowledges and replaces the controls
ButtonStep(u, uid, target, mid, sel, cursor) ==
    LET stay == [cursor |-> cursor, sel |-> sel, ret |-> FALSE, res |-> NoResult,
                 act |-> "none", cell |-> IntNum(0), ack |-> FALSE]
        \* the text fallback, cells being the numbers matched in the text
        Texted(cells) ==
            IF cells # <<>>
            THEN [stay EXCEPT !.cursor = AckCursor(uid), !.ret = TRUE,
                              !.res = CellsResult(cells, FALSE), !.act = "text"]
            ELSE [stay EXCEPT !.cursor = AckCursor(uid)]
        \* the cell branch, cellNum being the number parsed from the data
        Toggled(cellNum) ==
            [stay EXCEPT !.cursor = AckCursor(uid), !.sel = ToggleCell(sel, cellNum),
                         !.act = "toggle", !.cell = cellNum, !.ack = TRUE]
    IN
    IF IsTargetText(u, target) THEN Texted(DigitRuns(u.text))
    ELSE IF ~IsSessionCallback(u, target, mid) THEN stay
    ELSE IF u.data = SUBMIT
         THEN [stay EXCEPT !.cursor = AckCursor(uid), !.ret = TRUE,
                           !.res = SubmitResult(sel), !.act = "submit", !.ack = TRUE]
    ELSE IF u.data = SKIP
         THEN [stay EXCEPT !.cursor = AckCursor(uid), !.ret = TRUE,
                           !.res = SkipResult(sel), !.act = "skip", !.ack = TRUE]
    ELSE IF StartsWith(u.data, CELLPREFIX) THEN Toggled(ParseInt(SplitSecond(u.data)))
    ELSE [stay EXCEPT !.cursor = AckCursor(uid)]

\* _flushUpdates with the cursor at `cursor`: the new cursor and what the
\* backend keeps.  A failed request or a not-ok answer changes nothing.
FlushUpdatesResult(ok, cursor) ==
    IF ok /\ BackendLastUpdate # <<>>
    THEN [cursor |-> FlushCursor(BackendLastUpdate[Len(BackendLastUpdate)]),
          offset |-> Len(hist)]
    ELSE [cursor |-> cursor, offset |-> backendOffset]

\* mutant: a failed fetch still moves the cursor past what is outstanding
GetUpdatesResultFailSkips(ok, cursor) ==
    LET res == BackendGetUpdates(cursor, {"message", "callback_query"})
    IN  [batch |-> IF ok THEN res ELSE <<>>,
         cursor |-> IF Len(res) > 0 THEN MaxOfSeq(res) + 1 ELSE cursor,
         offset |-> IF ok THEN Max2(backendOffset, cursor) ELSE backendOffset]

\* _getUpdates with the cursor at `cursor`: the batch, the new cursor and what
\* the backend keeps.  A failed request or a not-ok answer is an empty batch.
GetUpdatesResult(ok, cursor) ==
    LET res == BackendGetUpdates(cursor, {"message", "callback_query"})
    IN  IF ok
        THEN [batch |-> res,
              cursor |-> IF Len(res) > 0 THEN MaxOfSeq(res) + 1 ELSE cursor,
              offset |-> Max2(backendOffset, cursor)]
        ELSE [batch |-> <<>>, cursor |-> cursor, offset |-> backendOffset]

\* mutant: a wait begins with a cell left selected
NewSelectionStale == <<1>>

\* const selected = new Set()
NewSelection == <<>>

\* Entry of waitForReply / waitForButtonResponse: the target, the deadline,
\* the empty selection, and the flush (the first request, sent at once).
WaitStart(kinds, maxCalls) ==
    /\ pc \in {"idle", "done", "raised"}
    /\ calls < maxCalls
    /\ now' = 0
    \* the chatId argument (0 is the falsy, absent one), the messageId
    \* argument, the <<cols, rows>> arguments and the timeout argument
    /\ \E k \in kinds, c \in {0, 1}, m \in {10}, g \in {<<2, 1>>}, t \in Timeouts :
        /\ callKind' = k
        /\ targetChat' = TargetOf(c)
        /\ messageId' = IF k = "button" THEN m ELSE 0
        /\ grid' = IF k = "button" THEN g ELSE <<1, 1>>
        /\ deadline' = now' + t
        \* the message of a grid session was sent by sendCaptchaWithButtons,
        \* with the keyboard of the empty selection
        \* (the message of a reply wait has no keyboard)
        /\ keyboard' = IF k = "button" THEN BuildGridKeyboard(g[1], g[2], <<>>)
                       ELSE <<>>
    /\ selected' = NewSelection
    /\ batch' = <<>>
    /\ idx' = 1
    /\ result' = NoResult
    /\ calls' = calls + 1
    /\ preCall' = Pending
    /\ log' = <<>>
    /\ hist' = [i \in 1..Len(hist) |-> IF i < backendOffset THEN Forgotten ELSE hist[i]]
    /\ \E ok \in BOOLEAN :
        LET f == FlushUpdatesResult(ok, lastUpdateId)
        IN  /\ flushOk' = ok
            /\ lastUpdateId' = f.cursor
            /\ backendOffset' = f.offset
            /\ startCursor' = f.cursor
    /\ fetchOk' = TRUE
    /\ pc' = "loop"
    /\ UNCHANGED <<pollInterval, acted, solveVars, unitVars>>

\* The test of the while loop, then _getUpdates; past the deadline the wait
\* returns null.
Poll ==
    /\ pc = "loop"
    /\ IF LoopContinues(now, deadline)
       THEN \E ok \in BOOLEAN :
              LET g == GetUpdatesResult(ok, lastUpdateId)
              IN  /\ batch' = g.batch
                  /\ lastUpdateId' = g.cursor
                  /\ backendOffset' = g.offset
                  /\ idx' = 1
                  /\ pc' = "proc"
                  /\ fetchOk' = ok
                  /\ UNCHANGED <<result, selected>>
       ELSE /\ pc' = "done"
            /\ result' = NullResult
            /\ DropLocals
            /\ UNCHANGED <<lastUpdateId, backendOffset, fetchOk>>
    /\ UNCHANGED <<now, hist, keyboard, pollInterval, callArgs, log, histVars, solveVars, unitVars>>

\* One iteration of the for loop of waitForReply.
ProcessReply ==
    /\ pc = "proc" /\ callKind = "reply" /\ idx <= Len(batch)
    /\ LET uid == batch[idx]
           st == ReplyStep(hist[uid], uid, targetChat, lastUpdateId)
       IN  /\ lastUpdateId' = st.cursor
           /\ IF st.ret
              THEN /\ pc' = "done"
                   /\ result' = st.res
                   /\ log' = Append(log, <<uid, "reply", 0>>)
                   /\ acted' = acted (+) SetToBag({uid})
                   /\ DropLocals
              ELSE /\ idx' = idx + 1
                   /\ UNCHANGED <<pc, result, log, acted, selected, batch>>
    /\ UNCHANGED <<now, backendVars, pollInterval, callArgs, waitObs, solveVars, unitVars>>

\* One iteration of the for loop of waitForButtonResponse.  A branch that
\* acknowledges and replaces the controls makes two backend calls; either may
\* fail, and the failure is raised out of the wait.
ProcessButton ==
    /\ pc = "proc" /\ callKind = "button" /\ idx <= Len(batch)
    /\ LET uid == batch[idx]
           Applied(st) ==
           /\ lastUpdateId' = st.cursor
           /\ log' = IF st.act = "none" THEN log
                     ELSE Append(log, <<uid, st.act, st.cell>>)
           /\ acted' = IF st.act = "none" THEN acted ELSE acted (+) SetToBag({uid})
           \* the request of answerCallbackQuery or editMessageReplyMarkup may
           \* reject, which is raised; the answer of the backend is not looked
           \* at, so an edit the backend refuses (ok: false) goes unnoticed
           /\ \E backend \in (IF st.ack THEN {"ok", "ackFails", "editFails", "editRefused"}
                               ELSE {"ok"}) :
                IF backend \in {"ackFails", "editFails"}
                THEN /\ pc' = "raised"
                     /\ DropLocals
                     /\ UNCHANGED <<result, keyboard>>
                ELSE /\ keyboard' = IF ~st.ack \/ backend = "editRefused" THEN keyboard
                                    ELSE IF st.ret THEN <<>>
                                    ELSE BuildGridKeyboard(grid[1], grid[2], st.sel)
                     /\ IF st.ret
                        THEN pc' = "done" /\ result' = st.res /\ DropLocals
                        ELSE /\ idx' = idx + 1
                             /\ selected' = st.sel
                             /\ UNCHANGED <<pc, result, batch>>
       IN  Applied(ButtonStep(hist[uid], uid, targetChat, messageId, selected,
                              lastUpdateId))
    /\ UNCHANGED <<now, hist, backendOffset, pollInterval, callArgs, waitObs, solveVars, unitVars>>

\* End of the for loop: await sleep(this.pollInterval).  The timer fires no
\* earlier than asked; the clock does not run past MaxTime, where every
\* deadline has passed.
Sleep ==
    /\ pc = "proc" /\ idx > Len(batch)
    /\ now' = IF now + pollInterval <= MaxTime THEN now + pollInterval ELSE MaxTime
    /\ pc' = "loop"
    /\ fetchOk' = TRUE
    /\ UNCHANGED <<backendVars, lastUpdateId, pollInterval, callArgs, selected,
                   batch, idx, result, log, histVars, solveVars, unitVars>>

\* A channel instance on which waits of both kinds are made one after the
\* other.
Next ==
    \/ Arrive(MaxUpdates, MaxCalls)
    \/ Tick
    \/ WaitStart({"reply", "button"}, MaxCalls)
    \/ Poll
    \/ ProcessReply
    \/ ProcessButton
    \/ Sleep

Spec == Init /\ [][Next]_vars

\* One grid-selection wait on a fresh channel instance.
NextGrid ==
    \/ Arrive(MaxGridUpdates, 1)
    \/ Tick
    \/ WaitStart({"button"}, 1)
    \/ Poll
    \/ ProcessButton
    \/ Sleep

SpecGrid == Init /\ [][NextGrid]_vars


\* Every step of a wait is taken as long as it stays possible; the clock
\* advances.  This is what the event loop and the backend's answering (or
\* failing) give a running wait.
FairSpec ==
    /\ Spec
    /\ WF_vars(Tick)
    /\ WF_vars(Poll)
    /\ WF_vars(ProcessReply)
    /\ WF_vars(ProcessButton)
    /\ WF_vars(Sleep)

\* ------------------------------------------------------- orchestrator
\* CaptchaRelay.solve.  The page, the annotator, the channel's sendPhoto and
\* waitForReply, and the page interaction of the injector are its
\* environment: each call returns one of its possible values, or throws.

\* a descriptor of detect: the signature matched, whether its challenge is
\* open, and the bounding box
Descriptor(type, hasChallenge, x) ==
    [type |-> type, hasChallenge |-> hasChallenge,
     rect |-> [x |-> x, y |-> 0, width |-> 300, height |-> 300]]

\* what detect may return, in the order of its signatures
DetectResults ==
    { <<>>,
      <<Descriptor("recaptcha-v2", TRUE, -5)>>,
      <<Descriptor("recaptcha-v2", FALSE, 10)>>,
      <<Descriptor("hcaptcha", TRUE, 10)>>,
      <<Descriptor("turnstile", FALSE, 10)>>,
      <<Descriptor("recaptcha-v2", TRUE, 10), Descriptor("hidden", FALSE, 10)>> }

\* the options argument of solve
OptionArgs ==
    { [type |-> t, cols |-> c, rows |-> 0] : t \in {"auto", "grid", "text"}, c \in {0, 4} }

TextOneThreeSeven == <<"1", " ", "3", " ", "7">>

\* separators at the edge, a word, zero, a negative number, a repeat, no order
TextMixed == <<",", "3", ",", "\t", "a", " ", "0", " ", "-", "2", "\n", "3", " ", "1">>

TextWord == <<" ", "x", "K", "9">>

\* what the human may have sent; among it a number that is not an integer,
\* and a blank
ReplyTexts ==
    {TextOneThreeSeven, TextMixed, <<"1", ".", "5", " ", "2">>, <<" ">>, TextWord}

\* what waitForReply may return: null, or the trimmed text of a message
Replies == {NullResult} \cup {TextResult(Trim(t)) : t \in ReplyTexts}

Call(op, args) == [op |-> op, args |-> args]

\* captchas.length === 0
NoneDetected(c) == Len(c) = 0

\* _inferType
InferType(captcha) ==
    IF captcha.type = "recaptcha-v2" \/ captcha.type = "hcaptcha"
    THEN (IF captcha.hasChallenge THEN "grid" ELSE "checkbox")
    ELSE "text"

\* mutant: the kind is inferred whatever the caller asked for
KindOfInferred(type, captcha) == InferType(captcha)

\* type === 'auto' ? this._inferType(captcha) : type
KindOf(type, captcha) == IF type = "auto" THEN InferType(captcha) ELSE type

\* _inferGridSize
InferGridSize(captcha) ==
    IF captcha.type = "recaptcha-v2" THEN [cols |-> 3, rows |-> 3]
    ELSE IF captcha.type = "hcaptcha" THEN [cols |-> 3, rows |-> 3]
    ELSE [cols |-> 3, rows |-> 3]

\* a || b, for a number a that may be missing (0)
OrElse(a, b) == IF a = 0 THEN b ELSE a

\* the clip of _screenshot
ClipOf(captcha) ==
    <<Max2(0, captcha.rect.x), Max2(0, captcha.rect.y),
      captcha.rect.width, captcha.rect.height>>

\* !reply
IsFalsy(r) == r.tag = "null" \/ r.text = <<>>

\* the separators of split(/[\s,]+/)
IsSep(c) == IsSpace(c) \/ c = ","

\* text.split(/[\s,]+/)
RECURSIVE SplitTokens(_, _, _, _)
SplitTokens(s, i, cur, inSep) ==
    IF i > Len(s) THEN <<cur>>
    ELSE IF IsSep(s[i])
         THEN (IF inSep THEN SplitTokens(s, i + 1, cur, TRUE)
               ELSE <<cur>> \o SplitTokens(s, i + 1, <<>>, TRUE))
         ELSE SplitTokens(s, i + 1, Append(cur, s[i]), FALSE)

\* n > 0
IsPositiveNum(n) ==
    ~n.nan /\ ~n.neg /\ (n.size # "exact" \/ n.whole > 0 \/ n.frac # <<>>)

MapNumber(toks) == [i \in 1..Len(toks) |-> ToNumber(toks[i])]

\* _parseAnswer
ParseAnswer(r, type) ==
    LET text == Trim(r)
    IN  IF type = "grid"
        THEN SelectSeq(MapNumber(SplitTokens(text, 1, <<>>, FALSE)),
                       LAMBDA n : ~n.nan /\ IsPositiveNum(n))
        ELSE text

\* ---------------------------------------------------------------------
\* Two grid-selection waits under way at once on one channel instance, for
\* two messages of the configured conversation.  Each has its own locals
\* (deadline, selected, the batch in hand, the request and the answer on
\* their way); the cursor and the backend are shared.  A wait is interleaved
\* with the other at its awaits, those of fetch and resp.json() included.
Sessions == {1, 2}

\* what belongs to a single wait, to solve or to a single call stays as it is
singleVars == <<keyboard, pollInterval, pc, callArgs, selected, batch, idx, result,
                log, histVars, fetchOk, solveVars, page, input, ret>>

\* the messageId argument of each wait
SessionMessage(s) == <<10, 11>>[s]

SessionEnd(s, outcome, res) ==
    [sess[s] EXCEPT !.pc = outcome, !.result = res,
                    !.selected = <<>>, !.batch = <<>>, !.idx = 1]

ArriveTwo ==
    /\ Len(hist) < MaxTwoUpdates
    /\ \E s \in Sessions, data \in {CellData(1), SUBMIT} :
        hist' = Append(hist, Cb(ConfigChat, SessionMessage(s), data))
    /\ UNCHANGED <<now, backendOffset, lastUpdateId, sess, singleVars>>

\* both waits are begun at time 0; where the clock stops every deadline has
\* passed
TickTwo ==
    /\ now < MaxTime
    /\ now' = now + 1
    /\ UNCHANGED <<hist, backendOffset, lastUpdateId, sess, singleVars>>

\* entry of waitForButtonResponse, up to the await of the fetch of
\* _flushUpdates: the request is on its way
SessionStart(s) ==
    /\ sess[s].pc = "idle"
    /\ now = 0
    /\ \E t \in Timeouts :
        sess' = [sess EXCEPT ![s] = [@ EXCEPT !.pc = "flush", !.deadline = now + t]]
    /\ UNCHANGED <<now, hist, backendOffset, lastUpdateId, singleVars>>

\* the backend handles the request of session s that is on its way, a flush
\* (offset=-1) or a getUpdates with the offset the request was sent with; the
\* answer is on its way back.  A failed request or a not-ok answer changes
\* nothing at the backend.
BackendServe(s) ==
    /\ sess[s].pc \in {"flush", "poll"}
    /\ \E ok \in BOOLEAN :
        LET f == FlushUpdatesResult(ok, 0)
            g == GetUpdatesResult(ok, sess[s].req)
        IN  IF sess[s].pc = "flush"
            THEN /\ backendOffset' = f.offset
                 /\ sess' = [sess EXCEPT ![s] =
                        [@ EXCEPT !.pc = "flushed",
                                  !.answer = [ok |-> ok,
                                              result |-> IF ok THEN BackendLastUpdate
                                                         ELSE <<>>]]]
            ELSE /\ backendOffset' = g.offset
                 /\ sess' = [sess EXCEPT ![s] =
                        [@ EXCEPT !.pc = "polled",
                                  !.answer = [ok |-> ok, result |-> g.batch]]]
    /\ UNCHANGED <<now, hist, lastUpdateId, singleVars>>

\* _flushUpdates after its awaits: the cursor is written from the answer,
\* whatever it has become since the request was sent
SessionFlushed(s) ==
    /\ sess[s].pc = "flushed"
    /\ LET data == sess[s].answer
           cursor == IF data.ok /\ Len(data.result) > 0
                     THEN FlushCursor(data.result[Len(data.result)])
                     ELSE lastUpdateId
       IN  /\ lastUpdateId' = cursor
           /\ sess' = [sess EXCEPT ![s] =
                    [@ EXCEPT !.pc = "wait", !.wake = now, !.start = cursor]]
    /\ UNCHANGED <<now, hist, backendOffset, singleVars>>

\* the test of the while loop, then _getUpdates up to the await of its
\* fetch: the request carries the cursor of this moment
SessionPoll(s) ==
    /\ sess[s].pc = "wait" /\ now >= sess[s].wake
    /\ sess' = [sess EXCEPT ![s] =
            IF LoopContinues(now, sess[s].deadline)
            THEN [@ EXCEPT !.pc = "poll", !.req = lastUpdateId]
            ELSE SessionEnd(s, "done", NullResult)]
    /\ UNCHANGED <<now, hist, backendOffset, lastUpdateId, singleVars>>

\* _getUpdates after its awaits: the cursor is written from the answer, and
\* the for loop begins
SessionFetched(s) ==
    /\ sess[s].pc = "polled"
    /\ LET data == sess[s].answer
       IN  /\ lastUpdateId' = IF data.ok /\ Len(data.result) > 0
                              THEN MaxOfSeq(data.result) + 1
                              ELSE lastUpdateId
           /\ sess' = [sess EXCEPT ![s] =
                    [@ EXCEPT !.pc = "proc", !.batch = data.result, !.idx = 1,
                              !.seen = @ \cup {data.result[i] : i \in 1..Len(data.result)}]]
    /\ UNCHANGED <<now, hist, backendOffset, singleVars>>

\* one iteration of the for loop, up to its first await: the cursor is
\* written and the selection changed; an update acted on by a button branch
\* leaves the request of answerCallbackQuery on its way, any other ends the
\* iteration (the return of the text fallback, or the next update)
SessionProcess(s) ==
    /\ sess[s].pc = "proc" /\ sess[s].idx <= Len(sess[s].batch)
    /\ LET uid == sess[s].batch[sess[s].idx]
           Applied(st, applied) ==
           /\ lastUpdateId' = st.cursor
           /\ sess' = [sess EXCEPT ![s] =
                    IF st.ack
                    THEN [@ EXCEPT !.pc = "ack", !.selected = st.sel,
                                   !.applied = applied, !.returns = st.ret]
                    ELSE IF st.ret
                    THEN [SessionEnd(s, "done", st.res) EXCEPT !.applied = applied]
                    ELSE [@ EXCEPT !.idx = @ + 1, !.selected = st.sel,
                                   !.applied = applied]]
           Step(st) ==
                Applied(st, IF st.act = "none" THEN sess[s].applied
                            ELSE Append(sess[s].applied, uid))
       IN  Step(ButtonStep(hist[uid], uid, TargetOf(0), SessionMessage(s),
                           sess[s].selected, lastUpdateId))
    /\ UNCHANGED <<now, hist, backendOffset, singleVars>>

\* the await of answerCallbackQuery ends: its fetch or resp.json() raises,
\* or the request of editMessageReplyMarkup is on its way
SessionAcked(s) ==
    /\ sess[s].pc = "ack"
    /\ \E backend \in {"ok", "fails"} :
        sess' = [sess EXCEPT ![s] =
            IF backend = "fails"
            THEN [SessionEnd(s, "raised", NoResult) EXCEPT !.returns = FALSE]
            ELSE [@ EXCEPT !.pc = "edit"]]
    /\ UNCHANGED <<now, hist, backendOffset, lastUpdateId, singleVars>>

\* the await of editMessageReplyMarkup ends: it raises, the submit or skip
\* branch returns what the selection gives now, or the loop goes on to the
\* next update
SessionEdited(s) ==
    /\ sess[s].pc = "edit"
    /\ LET uid == sess[s].batch[sess[s].idx]
           res == IF hist[uid].data = SUBMIT THEN SubmitResult(sess[s].selected)
                  ELSE SkipResult(sess[s].selected)
       IN  \E backend \in {"ok", "fails"} :
            sess' = [sess EXCEPT ![s] =
                IF backend = "fails"
                THEN [SessionEnd(s, "raised", NoResult) EXCEPT !.returns = FALSE]
                ELSE IF sess[s].returns
                THEN [SessionEnd(s, "done", res) EXCEPT !.returns = FALSE]
                ELSE [@ EXCEPT !.pc = "proc", !.idx = @ + 1]]
    /\ UNCHANGED <<now, hist, backendOffset, lastUpdateId, singleVars>>

\* end of the for loop: await sleep(this.pollInterval)
SessionSleep(s) ==
    /\ sess[s].pc = "proc" /\ sess[s].idx > Len(sess[s].batch)
    /\ sess' = [sess EXCEPT ![s] = [@ EXCEPT !.pc = "wait", !.wake = IF now + pollInterval <= MaxTime THEN now + pollInterval
                                      ELSE MaxTime]]
    /\ UNCHANGED <<now, hist, backendOffset, lastUpdateId, singleVars>>

NextTwo ==
    \/ ArriveTwo
    \/ TickTwo
    \/ \E s \in Sessions : SessionStart(s)
    \/ \E s \in Sessions : BackendServe(s)
    \/ \E s \in Sessions : SessionFlushed(s)
    \/ \E s \in Sessions : SessionPoll(s)
    \/ \E s \in Sessions : SessionFetched(s)
    \/ \E s \in Sessions : SessionProcess(s)
    \/ \E s \in Sessions : SessionAcked(s)
    \/ \E s \in Sessions : SessionEdited(s)
    \/ \E s \in Sessions : SessionSleep(s)

SpecTwo == Init /\ [][NextTwo]_vars

\* ---------------------------------------------------------------------
\* The injector.
\* What inject finds in the page: the frames present, whether the content of
\* a frame can be reached, the number of grid cells, whether the verify
\* button, the text inputs (by the position of their selector) and the
\* anchor checkbox are there, and which page operation rejects.
Page(frames, content, cells, verify, inputs, anchorBox, fails) ==
    [tag |-> "page", frames |-> frames, content |-> content, cells |-> cells,
     verify |-> verify, inputs |-> inputs, anchorBox |-> anchorBox, fails |-> fails]

\* the pages tried for a kind
InjectPages(type) ==
    IF type = "grid"
    THEN {Page(f, c, n, v, {}, FALSE, x) :
            f \in SUBSET {"bframe", "hcaptcha"}, c \in BOOLEAN, n \in 0..MaxCells,
            v \in BOOLEAN, x \in {"none", "query", "click"}}
    ELSE IF type = "text"
    THEN {Page({}, FALSE, 0, FALSE, i, FALSE, x) :
            i \in SUBSET (1..NumInputSelectors),
            x \in {"none", "query", "click", "fill"}}
    ELSE {Page(f, c, 0, FALSE, {}, b, x) :
            f \in SUBSET {"anchor"}, c \in BOOLEAN, b \in BOOLEAN,
            x \in {"none", "query", "click"}}

\* one interaction with an element of the page
Event(target, n) == [target |-> target, n |-> n]

\* how a function ended: by a value or by an exception, after its events;
\* caught tells that an exception was caught on the way
Outcome(threw, value, caught, events) ==
    [tag |-> "ret", threw |-> threw, value |-> value, caught |-> caught,
     events |-> events]

\* for (const num of cellNumbers) { ... }
RECURSIVE ClickCells(_, _, _)
ClickCells(pg, nums, events) ==
    IF nums = <<>> THEN Outcome(FALSE, TRUE, FALSE, events)
    ELSE LET num == Head(nums)
             \* index >= 0 && index < cells.length, index = num - 1
             inRange == /\ ~num.nan /\ ~num.neg /\ num.size = "exact"
                        /\ num.whole >= 1 /\ num.whole <= pg.cells
         IN  IF ~inRange THEN ClickCells(pg, Tail(nums), events)
             \* cells[index] of a fractional index is undefined
             ELSE IF num.frac # <<>> THEN Outcome(TRUE, FALSE, FALSE, events)
             ELSE IF pg.fails = "click" THEN Outcome(TRUE, FALSE, FALSE, events)
             ELSE ClickCells(pg, Tail(nums), Append(events, Event("cell", num.whole)))

injectGrid(pg, captcha, cellNumbers) ==
    LET frame == IF captcha.type = "recaptcha-v2" THEN "bframe" ELSE "hcaptcha"
        loop == ClickCells(pg, cellNumbers, <<>>)
    IN  IF pg.fails = "query" THEN Outcome(TRUE, FALSE, FALSE, <<>>)
        ELSE IF frame \notin pg.frames THEN Outcome(FALSE, FALSE, FALSE, <<>>)
        ELSE IF ~pg.content THEN Outcome(FALSE, FALSE, FALSE, <<>>)
        ELSE IF pg.cells = 0 THEN Outcome(FALSE, FALSE, FALSE, <<>>)
        ELSE IF loop.threw THEN loop
        ELSE IF ~pg.verify THEN loop
        ELSE IF pg.fails = "click" THEN Outcome(TRUE, FALSE, FALSE, loop.events)
        ELSE Outcome(FALSE, TRUE, FALSE, Append(loop.events, Event("verify", 0)))

\* mutant: the last matching selector is filled instead of the first
injectTextLast(pg, i) ==
    IF pg.inputs = {} THEN Outcome(FALSE, FALSE, FALSE, <<>>)
    ELSE LET m == CHOOSE x \in pg.inputs : \A y \in pg.inputs : y <= x
         IN  Outcome(FALSE, TRUE, FALSE, <<Event("input", m), Event("fill", m)>>)

\* for (const selector of inputSelectors) { ... }, from selector i on
RECURSIVE injectText(_, _)
injectText(pg, i) ==
    IF i > NumInputSelectors THEN Outcome(FALSE, FALSE, FALSE, <<>>)
    ELSE IF pg.fails = "query" THEN Outcome(TRUE, FALSE, FALSE, <<>>)
    ELSE IF i \notin pg.inputs THEN injectText(pg, i + 1)
    ELSE IF pg.fails = "click" THEN Outcome(TRUE, FALSE, FALSE, <<>>)
    ELSE IF pg.fails = "fill" THEN Outcome(TRUE, FALSE, FALSE, <<Event("input", i)>>)
    ELSE Outcome(FALSE, TRUE, FALSE, <<Event("input", i), Event("fill", i)>>)

injectCheckbox(pg) ==
    IF pg.fails = "query" THEN Outcome(TRUE, FALSE, FALSE, <<>>)
    ELSE IF "anchor" \notin pg.frames THEN Outcome(FALSE, FALSE, FALSE, <<>>)
    ELSE IF ~pg.content THEN Outcome(FALSE, FALSE, FALSE, <<>>)
    ELSE IF ~pg.anchorBox THEN Outcome(FALSE, FALSE, FALSE, <<>>)
    ELSE IF pg.fails = "click" THEN Outcome(TRUE, FALSE, FALSE, <<>>)
    ELSE Outcome(FALSE, TRUE, FALSE, <<Event("anchor", 0)>>)

\* the body of the try block of inject
InjectBody(pg, captcha, answer, type) ==
    IF type = "grid" THEN injectGrid(pg, captcha, answer)
    ELSE IF type = "text" THEN injectText(pg, 1)
    ELSE IF type = "checkbox" THEN injectCheckbox(pg)
    ELSE Outcome(FALSE, FALSE, FALSE, <<>>)

\* mutant: inject without its catch
injectUncaught(pg, captcha, answer, type) ==
    InjectBody(pg, captcha, answer, type)

\* try { ... } catch (err) { return false }
inject(pg, captcha, answer, type) ==
    LET r == InjectBody(pg, captcha, answer, type)
    IN  IF r.threw THEN Outcome(FALSE, FALSE, TRUE, r.events) ELSE r

\* the calls of inject that are tried: the kinds with their answers, and a
\* kind that has no strategy
InjectInputs ==
    {[tag |-> "inject", captcha |-> c, answer |-> a, type |-> "grid"] :
        c \in {Descriptor("recaptcha-v2", TRUE, 10), Descriptor("hcaptcha", TRUE, 10)},
        a \in {<<>>, <<IntNum(1)>>, <<IntNum(3), IntNum(1), IntNum(1), IntNum(2)>>,
               <<IntNum(2), Num(FALSE, 1, <<"5">>)>>}}
    \cup {[tag |-> "inject", captcha |-> Descriptor("hidden", FALSE, 10),
           answer |-> TextWord, type |-> t] : t \in {"text", "checkbox", "slider"}}

\* one call of inject
CallInject ==
    /\ input.tag = "inject"
    /\ ret.tag = "none"
    /\ ret' = inject(page, input.captcha, input.answer, input.type)
    /\ UNCHANGED <<page, input, sess, channelVars, solveVars>>

\* ---------------------------------------------------------------------
\* The detector.
\* A signature names a selector by the text its attribute must contain.
CAPTCHA_PATTERNS ==
    << [type |-> "recaptcha-v2", selector |-> "recaptcha",
        challengeSelector |-> "recaptcha/api2/bframe"],
       [type |-> "hcaptcha", selector |-> "hcaptcha.com",
        challengeSelector |-> "hcaptcha.com/captcha"],
       [type |-> "turnstile", selector |-> "challenges.cloudflare.com",
        challengeSelector |-> "null"],
       [type |-> "hidden", selector |-> "captcha hidden", challengeSelector |-> "null"] >>

\* the elements a document may hold, by the src of the frame (or the name and
\* type of the input), and the selectors each one satisfies
ElementSelectors ==
    [recaptchaAnchor |-> {"recaptcha"},
     recaptchaBframe |-> {"recaptcha", "recaptcha/api2/bframe"},
     hcaptchaWidget |-> {"hcaptcha.com"},
     hcaptchaChallenge |-> {"hcaptcha.com", "hcaptcha.com/captcha"},
     turnstileFrame |-> {"challenges.cloudflare.com"},
     hiddenField |-> {"captcha hidden"}]

\* the documents tried, and whether page.evaluate rejects
DetectPages ==
    {[tag |-> "dom", dom |-> d, fails |-> f] :
        d \in SUBSET DOMAIN ElementSelectors, f \in BOOLEAN}

\* document.querySelector(sel) finds an element
QuerySelector(dom, sel) == \E el \in dom : sel \in ElementSelectors[el]

\* mutant: a signature found is taken to have its challenge open
HasChallengeWhenFound(dom, pattern) == QuerySelector(dom, pattern.selector)

\* let hasChallenge = false; if (pattern.challengeSelector) { ... }
HasChallenge(dom, pattern) ==
    IF pattern.challengeSelector # "null"
    THEN QuerySelector(dom, pattern.challengeSelector)
    ELSE FALSE

\* for (const pattern of CAPTCHA_PATTERNS) { ... }, from pattern i on
RECURSIVE DetectFrom(_, _, _)
DetectFrom(dom, i, results) ==
    IF i > Len(CAPTCHA_PATTERNS) THEN results
    ELSE IF QuerySelector(dom, CAPTCHA_PATTERNS[i].selector)
    THEN DetectFrom(dom, i + 1,
            Append(results, Descriptor(CAPTCHA_PATTERNS[i].type,
                                       HasChallenge(dom, CAPTCHA_PATTERNS[i]), 10)))
    ELSE DetectFrom(dom, i + 1, results)

detect(pg) ==
    IF pg.fails THEN Outcome(TRUE, <<>>, FALSE, <<>>)
    ELSE Outcome(FALSE, DetectFrom(pg.dom, 1, <<>>), FALSE, <<>>)

\* one call of detect
CallDetect ==
    /\ input.tag = "detect"
    /\ ret.tag = "none"
    /\ ret' = detect(page)
    /\ UNCHANGED <<page, input, sess, channelVars, solveVars>>

\* ---------------------------------------------------------------------
\* The annotator.
\* An image is its width and height and the badges drawn on it; a length
\* that need not be whole is a fraction <<numerator, denominator>>.
Image(width, height, badges) ==
    [tag |-> "image", width |-> width, height |-> height, badges |-> badges]

\* the calls of annotate that are tried: the image, and cols and rows
AnnotateInputs ==
    {[tag |-> "annotate", cols |-> c, rows |-> r, fontSize |-> DefaultFontSize] :
        c \in 1..MaxGridSide, r \in 1..MaxGridSide}

AnnotateImages == {Image(w, h, <<>>) : w \in {90, 300}, h \in {100, 300}}

\* const badgeSize = Math.max(fontSize + 8, 28)
BadgeSize(fontSize) == Max2(fontSize + 8, MinBadgeSize)

\* for (let row ...) for (let col ...) { ...; cellNum++ }, from (row, col) on
RECURSIVE AnnotateLoop(_, _, _, _, _, _)
AnnotateLoop(img, opts, row, col, cellNum, labels) ==
    IF row >= opts.rows THEN labels
    ELSE IF col >= opts.cols THEN AnnotateLoop(img, opts, row + 1, 0, cellNum, labels)
    ELSE AnnotateLoop(img, opts, row, col + 1, cellNum + 1,
            Append(labels,
                \* cx = col * cellWidth + cellWidth / 2, cellWidth = width / cols
                [cx |-> <<2 * col * img.width + img.width, 2 * opts.cols>>,
                 cy |-> <<2 * row * img.height + img.height, 2 * opts.rows>>,
                 r |-> <<BadgeSize(opts.fontSize), 2>>,
                 text |-> cellNum]))

\* the overlay has the size of the image and is composited at (0, 0)
annotate(img, opts) ==
    Outcome(FALSE, Image(img.width, img.height,
                         AnnotateLoop(img, opts, 0, 0, 1, <<>>)), FALSE, <<>>)

\* mutant: the banner is drawn over the image instead of above it
annotateTextOverlay(img) ==
    Outcome(FALSE, Image(img.width, img.height, <<>>), FALSE, <<>>)

\* .extend({ top: bannerHeight, bottom: 0, left: 0, right: 0 })
annotateText(img) ==
    Outcome(FALSE, Image(img.width, img.height + BannerHeight, <<>>), FALSE, <<>>)

\* one call of annotate
CallAnnotate ==
    /\ input.tag = "annotate"
    /\ ret.tag = "none"
    /\ ret' = annotate(page, input)
    /\ UNCHANGED <<page, input, sess, channelVars, solveVars>>

\* one call of annotateText
CallAnnotateText ==
    /\ input.tag = "annotateText"
    /\ ret.tag = "none"
    /\ ret' = annotateText(page)
    /\ UNCHANGED <<page, input, sess, channelVars, solveVars>>

\* one call of buildGridKeyboard
CallBuildGridKeyboard ==
    /\ input.tag = "buildGridKeyboard"
    /\ ret.tag = "none"
    /\ ret' = Outcome(FALSE, BuildGridKeyboard(input.cols, input.rows, input.selected),
                      FALSE, <<>>)
    /\ UNCHANGED <<page, input, sess, channelVars, solveVars>>

\* ---------------------------------------------------------------------
\* Single calls: the arguments are drawn at the start, one call is made.
InitCall ==
    /\ InitRun
    /\ ret = NoCall
    /\ \/ input \in InjectInputs /\ page \in InjectPages(input.type)
       \/ input = [tag |-> "detect"] /\ page \in DetectPages
       \/ input \in AnnotateInputs /\ page \in AnnotateImages
       \/ input = [tag |-> "annotateText"] /\ page \in AnnotateImages
       \/ /\ input \in {[tag |-> "buildGridKeyboard", cols |-> c, rows |-> r, selected |-> sel] :
                            c \in 1..MaxGridSide, r \in 1..MaxGridSide,
                            sel \in {<<>>, <<IntNum(2)>>, <<IntNum(3), IntNum(1)>>}}
          /\ page = NoCall

NextCall ==
    \/ CallInject
    \/ CallDetect
    \/ CallAnnotate
    \/ CallAnnotateText
    \/ CallBuildGridKeyboard

SpecCall == InitCall /\ [][NextCall]_vars

\* mutant: nothing detected is reported as a success
NoCaptchaResultSuccess ==
    [success |-> TRUE, answer |-> NullResult, type |-> "null", error |-> "none"]

\* return { success: false, answer: null, type: null, error: 'No CAPTCHA detected' }
NoCaptchaResult ==
    [success |-> FALSE, answer |-> NullResult, type |-> "null", error |-> "No CAPTCHA detected"]

\* mutant: the timeout is reported without its error
TimeoutResultNoError(kind) ==
    [success |-> FALSE, answer |-> NullResult, type |-> kind, error |-> "none"]

\* return { success: false, answer: null, type: captchaType, error: 'Timeout ...' }
TimeoutResult(kind) ==
    [success |-> FALSE, answer |-> NullResult, type |-> kind,
     error |-> "Timeout waiting for human response"]

\* return { success: injected, answer: reply, type: captchaType }
InjectedResult(ok, r, kind) ==
    [success |-> ok, answer |-> r, type |-> kind, error |-> "none"]

\* Entry of solve and step 1: detect, the early return, the kind.
Detect ==
    /\ spc = "idle"
    /\ trail' = Append(trail, Call("detect", <<>>))
    /\ \E o \in OptionArgs, d \in DetectResults, ok \in BOOLEAN :
        /\ options' = o
        /\ IF ~ok
           THEN /\ spc' = "raised"
                /\ UNCHANGED <<captchas, captchaType, solveResult>>
           ELSE /\ captchas' = d
                /\ IF NoneDetected(d)
                   THEN /\ spc' = "returned"
                        /\ solveResult' = NoCaptchaResult
                        /\ UNCHANGED captchaType
                   ELSE /\ spc' = "detected"
                        /\ captchaType' = KindOf(o.type, d[1])
                        /\ UNCHANGED solveResult
    /\ UNCHANGED <<reply, injected, channelVars, unitVars>>

\* Step 2: the screenshot of the first descriptor's box.
Screenshot ==
    /\ spc = "detected"
    /\ trail' = Append(trail, Call("screenshot", ClipOf(captchas[1])))
    /\ \E ok \in BOOLEAN : spc' = IF ok THEN "shot" ELSE "raised"
    /\ UNCHANGED <<options, captchas, captchaType, reply, injected, solveResult,
                   channelVars, unitVars>>

\* Step 3: annotate, by kind.
Annotate ==
    /\ spc = "shot"
    /\ trail' = Append(trail,
            IF captchaType = "grid"
            THEN Call("annotate",
                      <<OrElse(options.cols, InferGridSize(captchas[1]).cols),
                        OrElse(options.rows, InferGridSize(captchas[1]).rows)>>)
            ELSE Call("annotateText", <<>>))
    /\ \E ok \in BOOLEAN : spc' = IF ok THEN "annotated" ELSE "raised"
    /\ UNCHANGED <<options, captchas, captchaType, reply, injected, solveResult,
                   channelVars, unitVars>>

\* Step 4: the image send.  A send the backend refuses throws.
SendPhoto ==
    /\ spc = "annotated"
    /\ trail' = Append(trail, Call("sendPhoto", <<captchaType>>))
    /\ \E ok \in BOOLEAN : spc' = IF ok THEN "sent" ELSE "raised"
    /\ UNCHANGED <<options, captchas, captchaType, reply, injected, solveResult,
                   channelVars, unitVars>>

\* Step 5: the wait for the reply, and the return on none.
WaitForReply ==
    /\ spc = "sent"
    /\ trail' = Append(trail, Call("waitForReply", <<>>))
    /\ \E r \in Replies :
        /\ reply' = r
        /\ IF IsFalsy(r)
           THEN spc' = "returned" /\ solveResult' = TimeoutResult(captchaType)
           ELSE spc' = "replied" /\ UNCHANGED solveResult
    /\ UNCHANGED <<options, captchas, captchaType, injected, channelVars, unitVars>>

\* Step 6: parse, inject, return.
Inject ==
    /\ spc = "replied"
    /\ trail' = Append(trail,
            Call("inject", <<captchas[1], ParseAnswer(reply.text, captchaType), captchaType>>))
    /\ \E pg \in InjectPages(captchaType) :
        /\ injected' = inject(pg, captchas[1],
                              ParseAnswer(reply.text, captchaType), captchaType).value
        /\ solveResult' = InjectedResult(injected', reply, captchaType)
    /\ spc' = "returned"
    /\ UNCHANGED <<options, captchas, captchaType, reply, channelVars, unitVars>>

\* One attempt of solve.
NextSolve ==
    \/ Detect
    \/ Screenshot
    \/ Annotate
    \/ SendPhoto
    \/ WaitForReply
    \/ Inject

SpecSolve == Init /\ [][NextSolve]_vars

\* ---------------------------------------------------------------------
\* The relay of one attempt: the image is sent, then the wait is begun
\* (waitForReply by solve, waitForButtonResponse by the button flow).  The
\* updates are the human's answers to the image: none arrives before the
\* image was delivered.
RelayArrive ==
    /\ spc = "sent"
    /\ Arrive(MaxUpdates, 1)

RelayWaitStart ==
    /\ spc = "sent"
    /\ WaitStart({"reply", "button"}, 1)

NextRelay ==
    \/ Detect
    \/ Screenshot
    \/ Annotate
    \/ SendPhoto
    \/ RelayArrive
    \/ RelayWaitStart
    \/ Tick
    \/ Poll
    \/ ProcessReply
    \/ ProcessButton
    \/ Sleep

SpecRelay == Init /\ [][NextRelay]_vars

\* ---------------------------------------------------------- properties
Ended == pc \in {"done", "raised"}

TerminalActs == {"reply", "text", "submit", "skip"}

LogIds == {log[i][1] : i \in 1..Len(log)}

HasTerminal == \E i \in 1..Len(log) : log[i][2] \in TerminalActs

LastAct == IF log = <<>> THEN "none" ELSE log[Len(log)][2]

LastUid == IF log = <<>> THEN 0 ELSE log[Len(log)][1]

\* cells toggled an odd number of times by this wait
OddToggled ==
    { n \in {log[i][3] : i \in 1..Len(log)} :
        Cardinality({i \in 1..Len(log) : log[i][2] = "toggle" /\ log[i][3] = n}) % 2 = 1 }

\* C1: a grid-selection wait produces at most one terminal outcome: a terminal
\* event (submit, skip, text fallback) is the last update the wait acts on, the
\* wait has ended once one is taken, the returned value is null exactly when
\* none was taken, and an ended wait changes nothing any more.
C1_Inv ==
    callKind = "button" =>
        /\ \A i \in 1..Len(log) : log[i][2] \in TerminalActs => i = Len(log)
        /\ HasTerminal => Ended
        /\ pc = "done" => /\ result.tag \in {"cells", "null"}
                          /\ (result.tag = "null") = ~HasTerminal
        /\ pc # "done" => result = NoResult

C1_Frozen ==
    (callKind = "button" /\ Ended /\ calls' = calls) =>
        /\ pc' = pc
        /\ result' = result
        /\ log' = log
        /\ acted' = acted
        /\ lastUpdateId' = lastUpdateId
        /\ keyboard' = keyboard

C1_OneOutcome == [](C1_Inv) /\ [][C1_Frozen]_vars

\* a submit ended the last wait while a later activation of the same session
\* was already in the backend
C1_Witness ==
    /\ callKind = "button" /\ pc = "done"
    /\ LastAct = "submit"
    /\ \E i \in 1..Len(hist) :
        i > LastUid /\ IsSessionCallback(hist[i], targetChat, messageId)

\* C2: the update cursor never decreases.
C2_CursorMonotone == [][lastUpdateId' >= lastUpdateId]_vars

\* C3: no update is acted on (toggle, submit, skip, text answer) more than
\* once by the channel instance, over all its waits.
C3_ActedOnce == \A id \in BagToSet(acted) : CopiesIn(id, acted) <= 1

\* the second wait acts on an update after the first one acted on another
C3_Witness ==
    /\ calls >= 2
    /\ log # <<>>
    /\ \E id \in BagToSet(acted) : id \notin LogIds

\* C4 as claimed: the update that gives a wait its answer was never pending
\* before the wait began.
C4_PendingNeverAnswered ==
    (pc = "done" /\ HasTerminal) => LastUid \notin preCall

\* C4 as amended: when the flush request of the wait succeeded, the update
\* that gives the wait its answer was not pending before the wait began.
C4_PendingNeverAnsweredAfterFlush ==
    (pc = "done" /\ HasTerminal /\ flushOk) => LastUid \notin preCall

\* a wait whose flush succeeded returns an answer although an update that
\* would have been an answer was pending when it began
C4_Witness ==
    /\ pc = "done" /\ HasTerminal /\ flushOk
    /\ \E i \in preCall :
        \/ hist[i].kind = "message" /\ hist[i].text # <<>> /\ hist[i].chat = targetChat
        \/ callKind = "button" /\ hist[i].kind = "callback_query"
             /\ hist[i].chat = targetChat /\ hist[i].mid = messageId

\* t is s without its leading and trailing blanks
IsTrimOf(t, s) ==
    /\ (t # <<>> => t[1] # " " /\ t[Len(t)] # " ")
    /\ \E a \in 0..Len(s) :
        /\ a + Len(t) <= Len(s)
        /\ \A i \in 1..Len(t) : t[i] = s[a + i]
        /\ \A i \in 1..Len(s) : (i <= a \/ i > a + Len(t)) => s[i] = " "

\* C5: the text-reply wait returns the trimmed text of the first update, in
\* arrival order from the cursor the flush left, that is a text message of
\* the target conversation.
C5_FirstTargetText ==
    (callKind = "reply" /\ pc = "done" /\ result.tag # "null") =>
        /\ result.tag = "text"
        /\ LastAct = "reply"
        /\ LastUid \in 1..Len(hist)
        /\ LastUid >= startCursor
        /\ hist[LastUid].kind = "message"
        /\ hist[LastUid].text # <<>>
        /\ hist[LastUid].chat = targetChat
        /\ IsTrimOf(result.text, hist[LastUid].text)
        /\ \A i \in 1..(LastUid - 1) :
            i >= startCursor =>
                ~(hist[i].kind = "message" /\ hist[i].text # <<>>
                    /\ hist[i].chat = targetChat)

\* a reply with surrounding blanks is returned after an earlier message of
\* another conversation was passed over
C5_Witness ==
    /\ callKind = "reply" /\ pc = "done" /\ result.tag = "text"
    /\ result.text # hist[LastUid].text
    /\ \E i \in 1..(LastUid - 1) :
        i >= startCursor /\ hist[i].kind = "message" /\ hist[i].chat # targetChat


\* C6: a wait that takes no terminal event ends by returning null, at or
\* after its deadline, and never by raising.
C6_TimeoutNull ==
    (Ended /\ ~HasTerminal) => (pc = "done" /\ result = NullResult /\ now >= deadline)

Running == pc \in {"loop", "proc"}

\* C7: every wait that was begun eventually returns (an answer or null).
C7_Terminates ==
    \A c \in 1..MaxCalls : (calls = c /\ Running) ~> (calls = c /\ pc = "done")

\* Every wait that was begun eventually ends, by returning or by raising.
WaitEnds ==
    \A c \in 1..MaxCalls : (calls = c /\ Running) ~> (calls = c /\ Ended)

\* the integer of a number that has one
CellValue(n) == IF n.neg THEN 0 - n.whole ELSE n.whole

IsInteger(n) == ~n.nan /\ n.size = "exact" /\ n.frac = <<>>

IsStrictlyAscending(s) ==
    /\ \A i \in 1..Len(s) : IsInteger(s[i])
    /\ \A i \in 1..(Len(s) - 1) : CellValue(s[i]) < CellValue(s[i + 1])

\* C8: a submit returns skipped = false and, strictly ascending, exactly the
\* cells this wait toggled an odd number of times.
C8_SubmitCells ==
    (callKind = "button" /\ pc = "done" /\ LastAct = "submit") =>
        /\ result.tag = "cells"
        /\ result.skipped = FALSE
        /\ IsStrictlyAscending(result.cells)
        /\ {result.cells[i] : i \in 1..Len(result.cells)} = OddToggled

\* The same for a wait whose activations all named a number.
SubmitCellsOfNumbers ==
    (\A i \in 1..Len(log) : log[i][2] = "toggle" => IsInteger(log[i][3])) =>
        C8_SubmitCells

\* a submit after cell 2 and then cell 1 were selected
SubmitAfterTwoCells ==
    /\ callKind = "button" /\ pc = "done" /\ LastAct = "submit"
    /\ Len(log) = 3
    /\ log[1][3] = IntNum(2) /\ log[2][3] = IntNum(1)
    /\ result.cells = <<IntNum(1), IntNum(2)>>

\* C9: a skip returns no cells and skipped = true, whatever is selected.
C9_SkipEmpty ==
    (callKind = "button" /\ pc = "done" /\ LastAct = "skip") =>
        /\ result.tag = "cells"
        /\ result.cells = <<>>
        /\ result.skipped = TRUE

\* a skip while a cell is selected
C9_Witness ==
    /\ callKind = "button" /\ pc = "done" /\ LastAct = "skip"
    /\ OddToggled # {}

\* the positions where a maximal run of digits of s begins
RunStarts(s) ==
    {a \in 1..Len(s) : IsDigit(s[a]) /\ (a = 1 \/ ~IsDigit(s[a - 1]))}

\* where the run of digits that begins at a ends
RunEnd(s, a) ==
    CHOOSE b \in a..Len(s) :
        /\ \A i \in a..b : IsDigit(s[i])
        /\ b = Len(s) \/ ~IsDigit(s[b + 1])

RECURSIVE DecimalValue(_, _, _)
DecimalValue(s, a, b) ==
    IF a > b THEN 0 ELSE DecimalValue(s, a, b - 1) * 10 + DigitValues[s[b]]

\* cells are the numbers written by the runs of digits of s, in their order
IsDigitRunsOf(cells, s) ==
    /\ Len(cells) = Cardinality(RunStarts(s))
    /\ \A a \in RunStarts(s) :
        cells[1 + Cardinality({x \in RunStarts(s) : x < a})]
            = IntNum(DecimalValue(s, a, RunEnd(s, a)))

HasDigit(s) == \E i \in 1..Len(s) : IsDigit(s[i])

\* the step of a grid-selection wait that handles a text message of the
\* target conversation
C10_TextStep ==
    /\ callKind = "button" /\ pc = "proc" /\ idx <= Len(batch)
    /\ hist[batch[idx]].kind = "message"
    /\ hist[batch[idx]].text # <<>>
    /\ hist[batch[idx]].chat = targetChat
    /\ (pc' # pc \/ idx' # idx)

\* C10: in a grid-selection wait a text message of the target conversation
\* ends the wait at once exactly when it holds a digit; the cells returned
\* are its runs of digits in their order, with skipped = false, whatever is
\* selected; without a digit the selection stays and the wait goes on.
C10_TextFallback ==
    [][C10_TextStep =>
        IF HasDigit(hist[batch[idx]].text)
        THEN /\ pc' = "done"
             /\ result'.tag = "cells"
             /\ result'.skipped = FALSE
             /\ IsDigitRunsOf(result'.cells, hist[batch[idx]].text)
        ELSE /\ pc' = "proc"
             /\ idx' = idx + 1
             /\ selected' = selected
             /\ result' = NoResult
             /\ log' = log]_vars

\* a typed answer ends a wait in which a cell was selected, with cells that
\* are neither sorted nor the selection
C10_Witness ==
    /\ callKind = "button" /\ pc = "done" /\ LastAct = "text"
    /\ OddToggled # {}
    /\ result.cells = <<IntNum(3), IntNum(1)>>


\* C11: every answer of a grid-selection wait that is not null has its cells
\* in ascending order without duplicates.
C11_CellsAscending ==
    (callKind = "button" /\ pc = "done" /\ result.tag = "cells") =>
        IsStrictlyAscending(result.cells)

InGrid(n) == IsInteger(n) /\ CellValue(n) \in 1..(grid[1] * grid[2])

\* C12: every cell selected during a grid-selection wait, and every cell of
\* the answer it returns, lies in 1..cols*rows.
C12_CellsInGrid ==
    callKind = "button" =>
        /\ \A i \in 1..Len(selected) : InGrid(selected[i])
        /\ (pc = "done" /\ result.tag = "cells") =>
                \A i \in 1..Len(result.cells) : InGrid(result.cells[i])

SetOf(s) == {s[i] : i \in 1..Len(s)}

\* the step of a grid-selection wait that handles an activation of a cell
\* and goes on
C13_ToggleStep ==
    /\ callKind = "button" /\ pc = "proc" /\ pc' = "proc"
    /\ Len(log') = Len(log) + 1
    /\ log'[Len(log')][2] = "toggle"

\* C13: an activation of cell n changes whether n is selected and changes no
\* other cell; the activation taken once more gives back the selection held
\* before the first.
C13_ToggleSymmetry ==
    [][C13_ToggleStep =>
        LET n == log'[Len(log')][3]
        IN  /\ SetOf(selected') \ {n} = SetOf(selected) \ {n}
            /\ (n \in SetOf(selected')) = (n \notin SetOf(selected))
            /\ SetOf(ToggleCell(selected', n)) = SetOf(selected)
            /\ Len(selected') = Cardinality(SetOf(selected'))]_vars

\* cell 2 was activated twice in a row while cell 1 was selected, and cell 1
\* alone is selected again
C13_Witness ==
    /\ callKind = "button" /\ pc \in {"loop", "proc"}
    /\ Len(log) = 3
    /\ \A i \in 1..3 : log[i][2] = "toggle"
    /\ log[1][3] = IntNum(1) /\ log[2][3] = IntNum(2) /\ log[3][3] = IntNum(2)
    /\ selected = <<IntNum(1)>>

\* an update of another conversation, or an activation on another message
IsForeign(u) ==
    \/ u.kind = "message" /\ u.chat # targetChat
    \/ u.kind = "callback_query" /\ (u.chat # targetChat \/ u.mid # messageId)

\* C14 (cursor part): once a grid-selection wait has handled a batch, the
\* cursor is past every update of the batch that was not addressed to the
\* session, so that it is not fetched again.
C14_ForeignPassed ==
    (callKind = "button" /\ pc = "loop") =>
        \A i \in 1..Len(batch) :
            IsForeign(hist[batch[i]]) => batch[i] < lastUpdateId

\* the step in which the update fetch of a running wait fails
C15_FailedFetchStep ==
    /\ pc = "loop" /\ LoopContinues(now, deadline)
    /\ pc' # pc
    /\ ~fetchOk'

\* the entry of a wait whose flush fails
C15_FailedFlushStep == calls' = calls + 1 /\ ~flushOk'

\* C15: a failed fetch gives the wait an empty batch and changes neither the
\* cursor nor the selection, and the wait goes on; a failed flush leaves the
\* cursor where it was, and the wait goes on to its loop.
C15_FailuresSwallowed ==
    [][/\ C15_FailedFetchStep =>
            /\ pc' = "proc"
            /\ batch' = <<>>
            /\ lastUpdateId' = lastUpdateId
            /\ selected' = selected
            /\ result' = NoResult
            /\ backendOffset' = backendOffset
       /\ C15_FailedFlushStep =>
            /\ pc' = "loop"
            /\ lastUpdateId' = lastUpdateId
            /\ result' = NoResult]_vars

\* a fetch failed while a cell was selected and an update was outstanding,
\* in a wait whose flush had failed too
C15_Witness ==
    /\ callKind = "button" /\ pc = "proc"
    /\ ~fetchOk /\ ~flushOk
    /\ selected # <<>>
    /\ \E i \in 1..Len(hist) : i >= lastUpdateId /\ i >= backendOffset


\* the positions of the calls of op in the trail of solve
CallsOf(op) == {i \in 1..Len(trail) : trail[i].op = op}

\* C16 (image send): a failed image send is not raised out of solve.
C16_SendFailureNotRaised ==
    ~(spc = "raised" /\ trail[Len(trail)].op = "sendPhoto")

\* C17: a result solve returns has a boolean success flag and, when the flag
\* is false, an error string.
C17_FailureHasError ==
    spc = "returned" =>
        /\ solveResult.success \in BOOLEAN
        /\ ~solveResult.success => solveResult.error # "none"

\* C18: when detect returns no descriptor, solve returns success = false with
\* the error of nothing detected, and makes no screenshot, send, wait or
\* injection.
C18_NoneDetected ==
    NoneDetected(captchas) =>
        /\ \A i \in 1..Len(trail) : trail[i].op = "detect"
        /\ spc = "returned" =>
            /\ solveResult.success = FALSE
            /\ solveResult.error = "No CAPTCHA detected"
            /\ solveResult.answer = NullResult
            /\ solveResult.type = "null"

\* nothing was detected although the caller named the kind
C18_Witness ==
    /\ spc = "returned" /\ NoneDetected(captchas)
    /\ options.type = "grid"

\* C19: when a challenge is detected and the wait returns null, solve returns
\* success = false with the timeout error; the image was sent exactly once,
\* before the wait, and the injector is not called.
C19_TimeoutResult ==
    (spc = "returned" /\ ~NoneDetected(captchas) /\ reply.tag = "null") =>
        /\ solveResult.success = FALSE
        /\ solveResult.error = "Timeout waiting for human response"
        /\ Cardinality(CallsOf("sendPhoto")) = 1
        /\ Cardinality(CallsOf("waitForReply")) = 1
        /\ \A i \in CallsOf("sendPhoto"), j \in CallsOf("waitForReply") : i < j
        /\ CallsOf("inject") = {}

\* the wait returned null for a grid challenge
C19_Witness ==
    /\ spc = "returned" /\ reply.tag = "null"
    /\ captchaType = "grid"
    /\ captchas # <<>>

\* what C20 asks of a returned solve whose wait returned a reply
ReplyInjected ==
    /\ Cardinality(CallsOf("inject")) = 1
    /\ \A i \in CallsOf("inject") :
        /\ i = Len(trail)
        /\ trail[i].args[1] = captchas[1]
        /\ trail[i].args[3] = (IF options.type = "auto"
                               THEN InferType(captchas[1]) ELSE options.type)
        /\ trail[i].args[3] = "grid" =>
                /\ \A k \in 1..Len(trail[i].args[2]) : IsPositiveNum(trail[i].args[2][k])
                /\ reply.text = TextOneThreeSeven =>
                        trail[i].args[2] = <<IntNum(1), IntNum(3), IntNum(7)>>
        /\ trail[i].args[3] # "grid" => trail[i].args[2] = reply.text
    /\ solveResult.success = injected
    /\ solveResult.answer = reply
    /\ solveResult.type = captchaType

\* C20: when the wait returns a reply, solve calls the injector exactly once,
\* with the inferred or overridden kind and the answer parsed from the reply,
\* and returns the injector's outcome as success and the reply as answer.
C20_ReplyInjected ==
    (spc = "returned" /\ reply.tag = "text") => ReplyInjected

\* The same for a reply that is not the empty string.
NonEmptyReplyInjected ==
    (spc = "returned" /\ reply.tag = "text" /\ reply.text # <<>>) => ReplyInjected


\* the positions where a token of s (a maximal run without separators) begins
TokenStarts(s) ==
    {a \in 1..Len(s) : ~IsSep(s[a]) /\ (a = 1 \/ IsSep(s[a - 1]))}

\* where the token that begins at a ends
TokenEnd(s, a) ==
    CHOOSE b \in a..Len(s) :
        /\ \A i \in a..b : ~IsSep(s[i])
        /\ b = Len(s) \/ IsSep(s[b + 1])

\* where the digits of the token that begins at a begin, after a "+"
DigitsFrom(s, a) == IF s[a] = "+" THEN a + 1 ELSE a

\* the token that begins at a writes a positive integer
IsPositiveIntegerToken(s, a) ==
    /\ DigitsFrom(s, a) <= TokenEnd(s, a)
    /\ \A i \in DigitsFrom(s, a)..TokenEnd(s, a) : IsDigit(s[i])
    /\ DecimalValue(s, DigitsFrom(s, a), TokenEnd(s, a)) > 0

PositiveIntegerTokens(s) == {a \in TokenStarts(s) : IsPositiveIntegerToken(s, a)}

\* cells are the positive integers written by tokens of s, in their order
IsPositiveIntegersOf(cells, s) ==
    /\ Len(cells) = Cardinality(PositiveIntegerTokens(s))
    /\ \A a \in PositiveIntegerTokens(s) :
        cells[1 + Cardinality({x \in PositiveIntegerTokens(s) : x < a})]
            = IntNum(DecimalValue(s, DigitsFrom(s, a), TokenEnd(s, a)))

\* C21: the answer parsed from a reply is, for grid kind, exactly the tokens
\* of the reply that are positive integers, in their order, unsorted and with
\* repeats; for any other kind it is the trimmed reply unchanged.
C21_ParsedAnswer ==
    \A i \in CallsOf("inject") :
        IF trail[i].args[3] = "grid"
        THEN IsPositiveIntegersOf(trail[i].args[2], reply.text)
        ELSE trail[i].args[2] = reply.text

\* The same for replies whose tokens hold no fraction.
ParsedAnswerWithoutFractions ==
    \A i \in CallsOf("inject") :
        (\A k \in 1..Len(reply.text) : reply.text[k] # ".") =>
            IF trail[i].args[3] = "grid"
            THEN IsPositiveIntegersOf(trail[i].args[2], reply.text)
            ELSE trail[i].args[2] = reply.text


\* C22: inject never raises; it returns a boolean, which is false whenever an
\* exception occurred inside or the kind is not grid, text or checkbox.
C22_InjectNeverRaises ==
    (input.tag = "inject" /\ ret.tag = "ret") =>
        /\ ~ret.threw
        /\ ret.value \in BOOLEAN
        /\ ret.caught => ret.value = FALSE
        /\ page.fails = "query" => ret.value = FALSE
        /\ input.type \notin {"grid", "text", "checkbox"} => ret.value = FALSE

\* a click rejected after an earlier click went through, caught by inject
C22_Witness ==
    /\ input.tag = "inject" /\ ret.tag = "ret"
    /\ ret.caught /\ ~ret.threw /\ ret.value = FALSE
    /\ ret.events # <<>>


\* the order of the signatures
SignatureOrder == <<"recaptcha-v2", "hcaptcha", "turnstile", "hidden">>

\* the document holds an element of the widget of this type
Present(dom, type) ==
    IF type = "recaptcha-v2" THEN dom \cap {"recaptchaAnchor", "recaptchaBframe"} # {}
    ELSE IF type = "hcaptcha" THEN dom \cap {"hcaptchaWidget", "hcaptchaChallenge"} # {}
    ELSE IF type = "turnstile" THEN "turnstileFrame" \in dom
    ELSE "hiddenField" \in dom

\* the document holds the opened challenge of the widget of this type
ChallengeOpen(dom, type) ==
    \/ type = "recaptcha-v2" /\ "recaptchaBframe" \in dom
    \/ type = "hcaptcha" /\ "hcaptchaChallenge" \in dom

PresentSignatures(dom) == {i \in 1..4 : Present(dom, SignatureOrder[i])}

\* C23: detect returns one descriptor for each signature present, in the
\* order of the signatures, and none when none is present; hasChallenge is
\* true exactly for a signature with a challenge pattern whose challenge is open.
C23_DetectDescriptors ==
    (input.tag = "detect" /\ ret.tag = "ret" /\ ~ret.threw) =>
        /\ Len(ret.value) = Cardinality(PresentSignatures(page.dom))
        /\ \A i \in PresentSignatures(page.dom) :
            LET d == ret.value[1 + Cardinality({j \in PresentSignatures(page.dom) : j < i})]
            IN  /\ d.type = SignatureOrder[i]
                /\ d.hasChallenge = ChallengeOpen(page.dom, SignatureOrder[i])

\* two signatures present, the first with its challenge open, the other without
\* a challenge pattern
C23_Witness ==
    /\ input.tag = "detect" /\ ret.tag = "ret" /\ ~ret.threw
    /\ Len(ret.value) = 2
    /\ ret.value[1].type = "recaptcha-v2" /\ ret.value[1].hasChallenge
    /\ ret.value[2].type = "turnstile" /\ ~ret.value[2].hasChallenge

\* a <= b, for fractions with positive denominators
FracLe(a, b) == a[1] * b[2] <= b[1] * a[2]

FracPlus(a, b) == <<a[1] * b[2] + b[1] * a[2], a[2] * b[2]>>

FracMinus(a, b) == <<a[1] * b[2] - b[1] * a[2], a[2] * b[2]>>

\* the badges that carry number n
BadgesOf(img, n) == {k \in 1..Len(img.badges) : img.badges[k].text = n}

\* the point (x, y) lies in the cell (row, col) of the grid
InCell(x, y, row, col) ==
    /\ FracLe(<<col * page.width, input.cols>>, x)
    /\ FracLe(x, <<(col + 1) * page.width, input.cols>>)
    /\ FracLe(<<row * page.height, input.rows>>, y)
    /\ FracLe(y, <<(row + 1) * page.height, input.rows>>)

\* cols * rows badges, numbered 1..cols * rows, each number once, row by row
BadgesNumbered ==
    /\ Len(ret.value.badges) = input.cols * input.rows
    /\ \A n \in 1..(input.cols * input.rows) :
        Cardinality(BadgesOf(ret.value, n)) = 1

\* C24: annotate draws cols * rows badges numbered 1..cols * rows without gap
\* or repeat; the badge of cell (row, col) carries row * cols + col + 1 and
\* lies inside the bounds of that cell.
C24_BadgesInCells ==
    (input.tag = "annotate" /\ ret.tag = "ret") =>
        /\ BadgesNumbered
        /\ \A row \in 0..(input.rows - 1), col \in 0..(input.cols - 1) :
            \A k \in BadgesOf(ret.value, row * input.cols + col + 1) :
                LET b == ret.value.badges[k]
                IN  /\ InCell(FracMinus(b.cx, b.r), FracMinus(b.cy, b.r), row, col)
                    /\ InCell(FracPlus(b.cx, b.r), FracPlus(b.cy, b.r), row, col)

\* The same with the centre of the badge in place of the whole badge.
BadgeCentresInCells ==
    (input.tag = "annotate" /\ ret.tag = "ret") =>
        /\ BadgesNumbered
        /\ \A row \in 0..(input.rows - 1), col \in 0..(input.cols - 1) :
            \A k \in BadgesOf(ret.value, row * input.cols + col + 1) :
                InCell(ret.value.badges[k].cx, ret.value.badges[k].cy, row, col)

\* C25: annotate returns an image of the width and height of its input;
\* annotateText returns one of the same width, higher by the banner.
C25_ImageSize ==
    /\ (input.tag = "annotate" /\ ret.tag = "ret") =>
            ret.value.width = page.width /\ ret.value.height = page.height
    /\ (input.tag = "annotateText" /\ ret.tag = "ret") =>
            ret.value.width = page.width /\ ret.value.height = page.height + 30

\* a grid that is not square was drawn on an image that is not square
C25_Witness ==
    /\ input.tag = "annotate" /\ ret.tag = "ret"
    /\ input.cols = 3 /\ input.rows = 2
    /\ page.width = 90 /\ page.height = 300
    /\ Len(ret.value.badges) = 6

\* a banner was added
C25_WitnessText ==
    /\ input.tag = "annotateText" /\ ret.tag = "ret"
    /\ ret.value.height = 330


\* the activations of cells of the session's message that reached the backend
\* after the flush of the wait and before update uid
SessionToggleIds(uid) ==
    {id \in 1..Len(hist) :
        /\ id >= startCursor /\ id < uid
        /\ IsSessionCallback(hist[id], targetChat, messageId)
        /\ StartsWith(hist[id].data, CELLPREFIX)}

\* the number after "cell:" in an activation, NaN when what stands there
\* is not one
CellOf(id) ==
    IF /\ Len(hist[id].data) > Len(CELLPREFIX)
       /\ \A i \in (Len(CELLPREFIX) + 1)..Len(hist[id].data) : IsDigit(hist[id].data[i])
    THEN IntNum(DecimalValue(hist[id].data, Len(CELLPREFIX) + 1, Len(hist[id].data)))
    ELSE NotANumber

\* C26: a grid session applies its events in the order of their update ids,
\* within a batch and across batches; the selection a submit returns holds
\* the toggles that arrived before the submit and none that arrived after it.
C26_ArrivalOrder ==
    callKind = "button" =>
        /\ \A i \in 1..(Len(log) - 1) : log[i][1] < log[i + 1][1]
        /\ (pc = "done" /\ LastAct = "submit") =>
            /\ {log[i][1] : i \in 1..(Len(log) - 1)} = SessionToggleIds(LastUid)
            /\ SetOf(result.cells) =
                {n \in {CellOf(id) : id \in SessionToggleIds(LastUid)} :
                    Cardinality({id \in SessionToggleIds(LastUid) : CellOf(id) = n}) % 2 = 1}
            /\ \A id \in (LastUid + 1)..Len(hist) : id \notin LogIds

\* cell 1 was activated, then submit, then cell 2: the answer holds cell 1 only
C26_Witness ==
    /\ callKind = "button" /\ pc = "done" /\ LastAct = "submit"
    /\ Len(hist) = 3
    /\ hist[1] = Cb(1, 10, CellData(1))
    /\ hist[2] = Cb(1, 10, SUBMIT)
    /\ hist[3] = Cb(1, 10, CellData(2))
    /\ result.cells = <<IntNum(1)>>

\* an activation on the message of session s that the session, still under
\* way, has not fetched though it reached the backend after the session's flush
Unfetched(s, id) ==
    /\ sess[s].pc \in {"wait", "poll", "polled", "proc", "ack", "edit"}
    /\ sess[s].pc = "polled" =>
            \A i \in 1..Len(sess[s].answer.result) : sess[s].answer.result[i] # id
    /\ IsSessionCallback(hist[id], ConfigChat, SessionMessage(s))
    /\ id >= sess[s].start
    /\ id \notin sess[s].seen

\* C27: of two grid sessions under way on one channel instance, each applies
\* the activations of its own message exactly once; none is skipped past by
\* the shared cursor through a fetch of the other session.
C27_NoInterference ==
    \A s \in Sessions :
        /\ \A i, j \in 1..Len(sess[s].applied) :
            sess[s].applied[i] = sess[s].applied[j] => i = j
        /\ \A id \in 1..Len(hist) :
            Unfetched(s, id) => ~(id < lastUpdateId /\ id < backendOffset)

\* an update the wait is there to take: a text of the target conversation, or
\* for a grid session an activation on its message
IsAnswer(u) ==
    \/ IsTargetText(u, targetChat)
    \/ callKind = "button" /\ IsSessionCallback(u, targetChat, messageId)

\* C28: an answer the human sends after the image was delivered is returned
\* or applied by the wait; one that reaches the backend between the sending of
\* the image and the flush of the wait is not discarded by the flush.
C28_AnswerAfterImageTaken ==
    (spc = "sent" /\ pc = "done") =>
        \A id \in preCall :
            IsAnswer(hist[id]) =>
                \/ id \in LogIds
                \/ \E i \in 1..Len(log) : log[i][1] < id /\ log[i][2] \in TerminalActs

\* the label of a control is marked
IsMarked(text) == text # <<>> /\ Head(text) = "OK"

\* the number a label shows between its brackets
CountShown(text) ==
    LET open == CHOOSE i \in 1..Len(text) : text[i] = "("
    IN  DecimalValue(text, open + 1, Len(text) - 1)

\* the keyboard kb of a cols x rows grid shows the selection sel
KeyboardShows(kb, cols, rows, sel) ==
    /\ Len(kb) = rows + 1
    /\ \A r \in 1..rows : Len(kb[r]) = cols
    /\ \A r \in 1..rows, c \in 1..cols :
        IsMarked(kb[r][c].text) = (IntNum((r - 1) * cols + c) \in SetOf(sel))
    /\ CountShown(kb[rows + 1][2].text) = Cardinality(SetOf(sel))

\* C29: once a grid session has processed an activation of a cell, the
\* keyboard shown on its message is the one of the current selection: a cell
\* is marked exactly when it is selected, and the submit label counts the
\* selected cells.
C29_KeyboardShowsSelection ==
    (callKind = "button" /\ pc \in {"loop", "proc"} /\ log # <<>>) =>
        KeyboardShows(keyboard, grid[1], grid[2], selected)

\* Whenever the keyboard of a running session is replaced, the new one shows
\* the selection.
EditShowsSelection ==
    [][(callKind = "button" /\ pc' \in {"loop", "proc"} /\ keyboard' # keyboard) =>
            KeyboardShows(keyboard', grid[1], grid[2], selected')]_vars

\* C30: buildGridKeyboard returns rows + 1 rows; each of the first rows holds
\* cols controls, whose actions are cell:1 .. cell:(cols * rows) row by row,
\* each once; the last row holds a skip control, then a submit control.
C30_KeyboardLayout ==
    (input.tag = "buildGridKeyboard" /\ ret.tag = "ret") =>
        /\ Len(ret.value) = input.rows + 1
        /\ \A r \in 1..input.rows :
            /\ Len(ret.value[r]) = input.cols
            /\ \A c \in 1..input.cols :
                LET data == ret.value[r][c].callback_data
                IN  /\ SubSeq(data, 1, 5) = <<"c", "e", "l", "l", ":">>
                    /\ Len(data) > 5
                    /\ \A i \in 6..Len(data) : IsDigit(data[i])
                    /\ DecimalValue(data, 6, Len(data)) = (r - 1) * input.cols + c
        /\ Len(ret.value[input.rows + 1]) = 2
        /\ ret.value[input.rows + 1][1].callback_data = <<"s", "k", "i", "p">>
        /\ ret.value[input.rows + 1][2].callback_data = <<"s", "u", "b", "m", "i", "t">>

\* the keyboard of a grid of 3 columns and 2 rows, with a cell selected
C30_Witness ==
    /\ input.tag = "buildGridKeyboard" /\ ret.tag = "ret"
    /\ input.cols = 3 /\ input.rows = 2 /\ input.selected # <<>>
    /\ Len(ret.value) = 3
    /\ ret.value[2][1].callback_data = <<"c", "e", "l", "l", ":", "4">>


\* C31: when a grid session has ended by a terminal outcome (submit, skip,
\* text fallback or timeout), its message carries no controls any more.
C31_ControlsCleared ==
    (callKind = "button" /\ pc = "done") => keyboard = <<>>

\* The same for the sessions ended by a submit or a skip whose edit the
\* backend accepted: every change of the keyboard at the end of a session
\* clears it.
ControlsClearedByEdit ==
    [][(callKind = "button" /\ pc = "proc" /\ pc' = "done" /\ keyboard' # keyboard) =>
            keyboard' = <<>>]_vars


\* the cells this wait has toggled
ToggledHere == {log[i][3] : i \in {j \in 1..Len(log) : log[j][2] = "toggle"}}

\* C32: every grid session begins with the empty selection, and the cells a
\* submit returns are cells toggled in this session: a cell toggled in an
\* earlier session on the same channel instance is not among them.
C32_FreshSelection ==
    /\ [][calls' # calls => selected' = <<>>]_vars
    /\ []((callKind = "button" /\ pc = "done" /\ LastAct = "submit") =>
            SetOf(result.cells) \subseteq ToggledHere)
    /\ []((callKind = "button" /\ pc \in {"loop", "proc"}) =>
            SetOf(selected) \subseteq ToggledHere)

\* the first session toggled cell 1 and timed out; the second took a submit
\* and returned no cell
C32_Witness ==
    /\ calls = 2 /\ callKind = "button" /\ pc = "done" /\ LastAct = "submit"
    /\ Len(hist) = 2 /\ LastUid = 2
    /\ hist[1] = Cb(1, 10, CellData(1))
    /\ BagIn(1, acted)
    /\ result.cells = <<>>


\* C33: without a kind from the caller, a recaptcha-v2 or hcaptcha descriptor
\* with an open challenge gives grid, one without gives checkbox, any other
\* descriptor gives text; a kind from the caller is used as it is; the
\* descriptor used is the first of the detection result.
C33_KindInference ==
    captchas # <<>> =>
        /\ options.type # "auto" => captchaType = options.type
        /\ options.type = "auto" =>
            LET widget == captchas[1].type \in {"recaptcha-v2", "hcaptcha"}
            IN  /\ (widget /\ captchas[1].hasChallenge) => captchaType = "grid"
                /\ (widget /\ ~captchas[1].hasChallenge) => captchaType = "checkbox"
                /\ ~widget => captchaType = "text"
        /\ \A i \in CallsOf("inject") : trail[i].args[1] = captchas[1]

\* two descriptors were detected, the kind was inferred from the first and
\* the answer was injected for the first
C33_Witness ==
    /\ spc = "returned" /\ options.type = "auto"
    /\ Len(captchas) = 2
    /\ captchas[1].type = "recaptcha-v2" /\ captchas[2].type = "hidden"
    /\ captchaType = "grid"
    /\ CallsOf("inject") # {}


\* C34: solve reports the timeout error only when the wait for the reply
\* returned the absent value; a reply that was received, the one that is empty
\* after trimming included, is never reported as a timeout.
C34_TimeoutOnlyWhenAbsent ==
    (spc = "returned" /\ solveResult = TimeoutResult(captchaType)) =>
        reply.tag = "null"

\* The same for the error of the result alone.
TimeoutErrorOnlyWhenAbsent ==
    (spc = "returned" /\ CallsOf("waitForReply") # {}
        /\ solveResult.error = "Timeout waiting for human response") =>
            reply.tag = "null"

\* a reply that is not empty after trimming is never reported as a timeout
NonEmptyReplyNotTimeout ==
    (spc = "returned" /\ reply.tag = "text" /\ reply.text # <<>>) =>
        solveResult.error # "Timeout waiting for human response"


\* the call made was injection into a grid
GridInjected == input.tag = "inject" /\ input.type = "grid" /\ ret.tag = "ret"

\* the frame of the challenge and at least one cell were found
GridFound ==
    /\ page.fails # "query"
    /\ (IF input.captcha.type = "recaptcha-v2" THEN "bframe" ELSE "hcaptcha")
            \in page.frames
    /\ page.content
    /\ page.cells >= 1

\* the number n lies within [1, cells]
WithinCells(n, cells) ==
    /\ ~n.nan /\ ~n.neg /\ n.size = "exact"
    /\ n.whole >= 1
    /\ n.whole < cells \/ (n.whole = cells /\ n.frac = <<>>)

\* the clicks on cells for the entries of the answer within [1, cells], in
\* the order of the answer
RECURSIVE ExpectedCellClicks(_, _)
ExpectedCellClicks(answer, cells) ==
    IF answer = <<>> THEN <<>>
    ELSE IF WithinCells(Head(answer), cells)
         THEN <<Event("cell", Head(answer).whole)>>
                  \o ExpectedCellClicks(Tail(answer), cells)
         ELSE ExpectedCellClicks(Tail(answer), cells)

\* the clicks were the expected cell clicks, then one on verify if present
GridClicksAsExpected ==
    /\ ret.value = TRUE /\ ~ret.caught
    /\ ret.events =
        ExpectedCellClicks(input.answer, page.cells)
            \o (IF page.verify THEN <<Event("verify", 0)>> ELSE <<>>)

\* C35: grid injection clicks exactly the entries of the answer within
\* [1, number of cells found], once each and in the order of the answer,
\* skipping the others; verify, when present, is clicked once and after all
\* cell clicks; the result is true whenever the frame and a cell were found.
C35_GridClicks ==
    (GridInjected /\ GridFound) => GridClicksAsExpected

\* The same for an answer of whole numbers on a page whose clicks go through.
WholeGridClicks ==
    (/\ GridInjected /\ GridFound
     /\ page.fails = "none"
     /\ \A i \in 1..Len(input.answer) : input.answer[i].frac = <<>>)
        => GridClicksAsExpected

\* cells 1 and 2 clicked in the order 1, 1, 2 for the answer 3 1 1 2, then verify
WholeGridClicked ==
    /\ GridInjected /\ GridFound
    /\ Len(input.answer) = 4
    /\ ret.events = <<Event("cell", 1), Event("cell", 1), Event("cell", 2),
                      Event("verify", 0)>>


\* the call made was injection into a text field
TextInjected == input.tag = "inject" /\ input.type = "text" /\ ret.tag = "ret"

\* the first selector of the list that matches an element of the page
FirstMatch == CHOOSE i \in page.inputs : \A j \in page.inputs : i <= j

\* the first match was focused and filled, once, and nothing else was touched
FilledFirstMatch ==
    ret.events = <<Event("input", FirstMatch), Event("fill", FirstMatch)>>

\* The statement as it stands: the first match is filled, exactly once, with
\* the result true; without a match nothing is filled and the result is false.
C36_TextFillAlways ==
    TextInjected =>
        /\ page.inputs # {} => (ret.value = TRUE /\ FilledFirstMatch)
        /\ page.inputs = {} =>
              (ret.value = FALSE /\ ~ret.caught /\ ret.events = <<>>)

\* C36: text injection tries the selectors in their order; when no page
\* operation rejects, it fills the first match, exactly once, and returns true,
\* and without a match fills nothing and returns false. When an operation
\* rejects, it raises: no later selector is tried, only the first match can
\* have been touched, and nothing is reported as filled.
C36_TextFill ==
    TextInjected =>
        /\ (page.fails = "none" /\ page.inputs # {}) =>
              (ret.value = TRUE /\ FilledFirstMatch)
        /\ (page.fails = "none" /\ page.inputs = {}) =>
              (ret.value = FALSE /\ ~ret.caught /\ ret.events = <<>>)
        /\ ret.value = TRUE => FilledFirstMatch
        /\ ret.value = FALSE =>
              /\ \A k \in 1..Len(ret.events) : ret.events[k].target # "fill"
              /\ \A k \in 1..Len(ret.events) : ret.events[k].n = FirstMatch
              /\ Len(ret.events) <= 1
        /\ ret.caught <=> (/\ page.fails # "none"
                           /\ page.fails = "query" \/ page.inputs # {})

\* the second and the fourth selector match: the second is filled
C36_Witness ==
    /\ TextInjected
    /\ page.inputs = {2, 4} /\ page.fails = "none"
    /\ ret.value = TRUE
    /\ ret.events = <<Event("input", 2), Event("fill", 2)>>


\* ---------------------------------------------------------------------
\* waitForCaptcha: the polling variant of detect.
MaxWaitTime == 4   \* the clock of a wait for a captcha stops here

\* the documents the page shows while it is polled
WaitPages ==
    {pg \in DetectPages :
        pg.dom \in {{}, {"hiddenField"}, {"recaptchaBframe", "hiddenField"}}}

\* mutant: the last descriptor of the scan is returned
LastDetected(detected) == detected[Len(detected)]

\* return detected[0]
FirstDetected(detected) == detected[1]

\* const start = Date.now()
WaitBegin ==
    /\ input.tag = "waitForCaptcha" /\ ret.pc = "start"
    /\ ret' = [ret EXCEPT !.pc = "test", !.start = now]
    /\ UNCHANGED <<page, input, sess, channelVars, solveVars>>

\* while (Date.now() - start < timeout) ... return null; in the body detect
\* begins: const results = [], and the first pattern
WaitTest ==
    /\ input.tag = "waitForCaptcha" /\ ret.pc = "test"
    /\ ret' = IF now - ret.start < input.timeout
              THEN [ret EXCEPT !.pc = "scan", !.pattern = 1, !.results = <<>>]
              ELSE [ret EXCEPT !.pc = "done", !.value = NullResult]
    /\ UNCHANGED <<page, input, sess, channelVars, solveVars>>

\* detect has tried the pattern it was at, with these results: it goes on
\* with the next pattern, or returns after the last one, and then
\* if (detected.length > 0) return detected[0]; otherwise the sleep of
\* pollInterval begins (the sleep that would end after the clock has stopped
\* ends when it stops)
ScanNext(results) ==
    IF ret.pattern < Len(CAPTCHA_PATTERNS)
    THEN [ret EXCEPT !.pc = "scan", !.pattern = @ + 1, !.results = results]
    ELSE IF Len(results) > 0
    THEN [ret EXCEPT !.pc = "done", !.pattern = 1, !.results = <<>>,
                     !.scans = Append(@, results),
                     !.value = FirstDetected(results)]
    ELSE [ret EXCEPT !.pc = "sleep", !.pattern = 1, !.results = <<>>,
                     !.scans = Append(@, results),
                     !.wake = IF now + input.pollInterval <= MaxWaitTime
                              THEN now + input.pollInterval
                              ELSE MaxWaitTime]

\* const found = await page.evaluate(..., pattern.selector), on the document
\* as it is when the call is served; a rejection ends waitForCaptcha. When
\* found, a pattern with a challengeSelector has that looked up next, and
\* one without has its descriptor pushed
WaitScan ==
    /\ input.tag = "waitForCaptcha" /\ ret.pc = "scan"
    /\ LET pattern == CAPTCHA_PATTERNS[ret.pattern]
       IN  ret' = IF page.fails THEN [ret EXCEPT !.pc = "raised"]
                  ELSE IF ~QuerySelector(page.dom, pattern.selector)
                  THEN ScanNext(ret.results)
                  ELSE IF pattern.challengeSelector # "null"
                  THEN [ret EXCEPT !.pc = "challenge"]
                  ELSE ScanNext(Append(ret.results,
                            Descriptor(pattern.type, HasChallenge(page.dom, pattern), 10)))
    /\ UNCHANGED <<page, input, sess, channelVars, solveVars>>

\* hasChallenge = await page.evaluate(..., pattern.challengeSelector), on the
\* document as it is by now; results.push({ type, ...found, hasChallenge })
WaitChallenge ==
    /\ input.tag = "waitForCaptcha" /\ ret.pc = "challenge"
    /\ LET pattern == CAPTCHA_PATTERNS[ret.pattern]
       IN  ret' = IF page.fails THEN [ret EXCEPT !.pc = "raised"]
                  ELSE ScanNext(Append(ret.results,
                            Descriptor(pattern.type, HasChallenge(page.dom, pattern), 10)))
    /\ UNCHANGED <<page, input, sess, channelVars, solveVars>>

\* await new Promise((r) => setTimeout(r, pollInterval)) has resolved
WaitWake ==
    /\ input.tag = "waitForCaptcha" /\ ret.pc = "sleep"
    /\ now >= ret.wake
    /\ ret' = [ret EXCEPT !.pc = "test"]
    /\ UNCHANGED <<page, input, sess, channelVars, solveVars>>

\* time passes while waitForCaptcha runs; the clock is counted from its call
WaitTick ==
    /\ input.tag = "waitForCaptcha" /\ ret.pc \notin {"start", "done", "raised"}
    /\ now < MaxWaitTime
    /\ now' = now + 1
    /\ UNCHANGED <<hist, backendOffset, lastUpdateId, sess, singleVars>>

\* the document changes, or page.evaluate starts or stops rejecting
PageChange ==
    /\ input.tag = "waitForCaptcha" /\ ret.pc \notin {"done", "raised"}
    /\ page' \in WaitPages \ {page}
    /\ UNCHANGED <<input, ret, sess, channelVars, solveVars>>

\* the call of waitForCaptcha with its options; ret holds the position in
\* the function, its local start, the time its sleep ends, the pattern the
\* scan under way has reached and its results, the results of the scans made
\* so far and the value returned; timeout is 0 or 2, pollInterval 1 or 2
InitWait ==
    /\ InitRun
    /\ input \in {[tag |-> "waitForCaptcha", timeout |-> t, pollInterval |-> p] :
                    t \in {0, 2}, p \in {1, 2}}
    /\ page \in WaitPages
    /\ ret = [tag |-> "wait", pc |-> "start", start |-> 0, wake |-> 0,
              pattern |-> 1, results |-> <<>>, scans |-> <<>>, value |-> NoResult]

NextWait ==
    \/ WaitBegin
    \/ WaitTest
    \/ WaitScan
    \/ WaitChallenge
    \/ WaitWake
    \/ WaitTick
    \/ PageChange

\* every awaited promise of waitForCaptcha settles and the clock advances
FairSpecWait ==
    /\ InitWait /\ [][NextWait]_vars
    /\ WF_vars(WaitBegin)
    /\ WF_vars(WaitTest)
    /\ WF_vars(WaitScan)
    /\ WF_vars(WaitChallenge)
    /\ WF_vars(WaitWake)
    /\ WF_vars(WaitTick)

\* waitForCaptcha has returned
WaitReturned == input.tag = "waitForCaptcha" /\ ret.pc = "done"

\* every scan but the last found nothing
EarlierScansEmpty == \A k \in 1..(Len(ret.scans) - 1) : ret.scans[k] = <<>>

\* what waitForCaptcha returns: the first descriptor of the first scan that
\* is not empty, and null only with every scan empty and the deadline passed
WaitReturnsFirst ==
    WaitReturned =>
        /\ EarlierScansEmpty
        /\ ret.value # NullResult =>
              /\ ret.scans # <<>>
              /\ ret.scans[Len(ret.scans)] # <<>>
              /\ ret.value = ret.scans[Len(ret.scans)][1]
        /\ ret.value = NullResult =>
              /\ \A k \in 1..Len(ret.scans) : ret.scans[k] = <<>>
              /\ now - ret.start >= input.timeout

\* while it runs no scan has found anything: it returns at the first that does
WaitRunningScansEmpty ==
    (input.tag = "waitForCaptcha" /\ ret.pc \in {"test", "scan", "challenge", "sleep"}) =>
        \A k \in 1..Len(ret.scans) : ret.scans[k] = <<>>

\* C37: waitForCaptcha returns the first descriptor of the first scan whose
\* result is not empty, returns null only after the deadline has passed with
\* every scan empty, and always ends.
C37_WaitForCaptcha ==
    /\ [](WaitReturnsFirst /\ WaitRunningScansEmpty)
    /\ <>(ret.pc \in {"done", "raised"})

\* the second scan found two descriptors after an empty first one, and the
\* first of the two was returned
C37_Witness ==
    /\ WaitReturned
    /\ Len(ret.scans) = 2 /\ ret.scans[1] = <<>> /\ Len(ret.scans[2]) = 2
    /\ ret.value = ret.scans[2][1]
    /\ ret.value.type = "recaptcha-v2"

\* the document changed while a scan was under way: the frame was found,
\* its challenge was looked up in a document without it, and the descriptor
\* returned is one that no single document of the page gives
WaitScanAcrossChange ==
    /\ WaitReturned /\ ret.scans # <<>>
    /\ ret.scans[Len(ret.scans)] = <<Descriptor("recaptcha-v2", FALSE, 10)>>
    /\ ret.value = Descriptor("recaptcha-v2", FALSE, 10)
    /\ \A pg \in WaitPages : ~pg.fails => detect(pg).value # ret.scans[Len(ret.scans)]

\* null was returned after two empty scans
C37_WitnessNull ==
    /\ WaitReturned /\ ret.value = NullResult
    /\ Len(ret.scans) = 2


\* ---------------------------------------------------------------------
\* solveLoop: the retry driver of the command line.
MaxRetries == 3   \* the largest --max-retries tried

\* mutant: the last attempt is not made
LoopConditionStrict(attempt, maxRetries) ==
    /\ ~maxRetries.nan /\ ~maxRetries.neg
    /\ maxRetries.size # "exact" \/ attempt < maxRetries.whole

\* attempt <= maxRetries, maxRetries being what parseInt gave
LoopCondition(attempt, maxRetries) ==
    /\ ~maxRetries.nan /\ ~maxRetries.neg
    /\ maxRetries.size # "exact" \/ attempt <= maxRetries.whole

\* for (let attempt = 1; attempt <= maxRetries; attempt++) ...
\* return { success: false, error: 'Max retries exceeded' }
LoopTest ==
    /\ input.tag = "solveLoop" /\ ret.pc = "test"
    /\ ret' = IF LoopCondition(ret.attempt, input.maxRetries)
              THEN [ret EXCEPT !.pc = "send"]
              ELSE [ret EXCEPT !.pc = "done",
                               !.value = [success |-> FALSE, cells |-> <<>>, attempt |-> 0,
                                          error |-> "Max retries exceeded"]]
    /\ UNCHANGED <<page, input, sess, channelVars, solveVars>>

\* read the input file, crop, annotate and send the photo; reading, sharp and
\* sendPhoto can reject
LoopSend ==
    /\ input.tag = "solveLoop" /\ ret.pc = "send"
    /\ \E outcome \in {"sent", "readFails", "sendFails"} :
        ret' = IF outcome = "sent"
               THEN [ret EXCEPT !.pc = "wait", !.sent = @ + 1]
               ELSE [ret EXCEPT !.pc = "raised"]
    /\ UNCHANGED <<page, input, sess, channelVars, solveVars>>

\* const reply = await telegram.waitForReply(chatId, timeout), then the two
\* continue branches, or the answer file and the return
LoopWait ==
    /\ input.tag = "solveLoop" /\ ret.pc = "wait"
    /\ \/ \E r \in {NullResult, TextResult(<<>>), TextResult(<<"n", "o">>),
                    TextResult(<<"0">>), TextResult(Trim(TextMixed))} :
            LET cells == DigitRuns(r.text)
            IN  ret' = IF IsFalsy(r) \/ cells = <<>>
                       THEN [ret EXCEPT !.pc = "test", !.attempt = @ + 1,
                                        !.replies = Append(@, r)]
                       ELSE [ret EXCEPT !.pc = "done", !.replies = Append(@, r),
                                        !.value = [success |-> TRUE, cells |-> cells,
                                                   attempt |-> ret.attempt,
                                                   error |-> "none"]]
       \* waitForReply or writeFileSync rejects
       \/ ret' = [ret EXCEPT !.pc = "raised"]
    /\ UNCHANGED <<page, input, sess, channelVars, solveVars>>

\* solveLoop is called; ret holds the position, the attempt counter, the
\* photos sent, the replies of the attempts and the value returned
InitLoop ==
    /\ InitRun
    /\ input \in {[tag |-> "solveLoop", maxRetries |-> m] : m \in {NotANumber} \cup {IntNum(n) : n \in -1..MaxRetries}}
    /\ page = NoCall
    /\ ret = [tag |-> "loop", pc |-> "test", attempt |-> 1, sent |-> 0,
              replies |-> <<>>, value |-> NoResult]

NextLoop ==
    \/ LoopTest
    \/ LoopSend
    \/ LoopWait

\* every awaited promise of solveLoop settles
FairSpecLoop ==
    /\ InitLoop /\ [][NextLoop]_vars
    /\ WF_vars(LoopTest)
    /\ WF_vars(LoopSend)
    /\ WF_vars(LoopWait)

\* the reply r is a timeout or holds no number
NoNumber(r) == r.tag = "null" \/ \A i \in 1..Len(r.text) : ~IsDigit(r.text[i])

\* the attempts allowed
RetriesAllowed ==
    IF input.maxRetries.nan \/ input.maxRetries.neg THEN 0 ELSE input.maxRetries.whole

\* the attempts of solveLoop and what it returns
LoopAttempts ==
    input.tag = "solveLoop" =>
        /\ Len(ret.replies) <= RetriesAllowed
        /\ ret.sent <= RetriesAllowed
        /\ ret.sent \in {Len(ret.replies), Len(ret.replies) + 1}
        /\ ret.pc = "wait" => ret.sent = Len(ret.replies) + 1
        /\ ret.pc \in {"test", "send", "done"} => ret.sent = Len(ret.replies)
        /\ \A k \in 1..(Len(ret.replies) - 1) : NoNumber(ret.replies[k])
        /\ (ret.pc = "done" /\ ret.value.success) =>
              /\ ret.replies # <<>>
              /\ ~NoNumber(ret.replies[Len(ret.replies)])
              /\ ret.value.attempt = Len(ret.replies)
              /\ IsDigitRunsOf(ret.value.cells, ret.replies[Len(ret.replies)].text)
        /\ (ret.pc = "done" /\ ~ret.value.success) =>
              /\ ret.value.error = "Max retries exceeded"
              /\ Len(ret.replies) = RetriesAllowed
              /\ \A k \in 1..Len(ret.replies) : NoNumber(ret.replies[k])
        /\ ret.pc \in {"test", "send", "wait"} =>
              \A k \in 1..Len(ret.replies) : NoNumber(ret.replies[k])

\* C38: solveLoop makes at most maxRetries attempts with one photo each; it
\* returns success at the first attempt whose reply holds a number, with the
\* index of that attempt, and 'Max retries exceeded' exactly when every
\* attempt timed out or had a reply without numbers; it always ends.
C38_SolveLoop ==
    /\ []LoopAttempts
    /\ <>(ret.pc \in {"done", "raised"})

\* success at the third and last attempt, after a timeout and a reply
\* without numbers
C38_Witness ==
    /\ input.tag = "solveLoop" /\ input.maxRetries = IntNum(3)
    /\ ret.pc = "done" /\ ret.value.success /\ ret.value.attempt = 3
    /\ ret.sent = 3
    /\ ret.replies[1] = NullResult /\ ret.replies[2] = TextResult(<<"n", "o">>)

\* three attempts without a number end in 'Max retries exceeded'
C38_WitnessExceeded ==
    /\ input.tag = "solveLoop" /\ input.maxRetries = IntNum(3)
    /\ ret.pc = "done" /\ ~ret.value.success
    /\ ret.sent = 3


\* ---------------------------------------------------------------------
\* solveCaptcha: the token relay. The collaborators (detectCaptcha,
\* createRelayServer, startTunnel, waitForToken, injectToken) are awaited
\* calls; each one resolves or rejects.

\* Steps 1 to 4: detection (or the override), the relay server, the tunnel or
\* the local address, and the 'ready' event.
TokenStart ==
    /\ input.tag = "solveCaptcha" /\ ret.pc = "start"
    /\ \E outcome \in {"ready", "noCaptcha", "detectFails", "serverFails", "tunnelFails"},
          type \in {"recaptcha-v2", "hcaptcha", "turnstile"} :
        \* an override with type and sitekey is taken as it is
        /\ input.override => outcome \notin {"noCaptcha", "detectFails"}
        /\ ~input.useTunnel => outcome # "tunnelFails"
        /\ ret' = IF outcome = "ready"
                  THEN [ret EXCEPT !.pc = "wait", !.type = type,
                                   !.tunnel = IF input.useTunnel THEN "started" ELSE "none",
                                   !.events = Append(@, "ready")]
                  ELSE [ret EXCEPT !.pc = "raised", !.exit = outcome]
    /\ UNCHANGED <<page, input, sess, channelVars, solveVars>>

\* Step 5: const token = await relay.waitForToken(); if (!token) {
\* stopTunnel(tunnel); throw new Error('CAPTCHA solving timed out') }
TokenWait ==
    /\ input.tag = "solveCaptcha" /\ ret.pc = "wait"
    /\ \/ \E token \in {"null", "", "03AG", "P0_e"} :
            ret' = IF token \in {"null", ""}
                   THEN [ret EXCEPT !.pc = "raised", !.exit = "timeout",
                                    !.tunnel = IF @ = "started" THEN "stopped" ELSE @]
                   ELSE [ret EXCEPT !.pc = "inject", !.token = token]
       \* waitForToken rejects
       \/ ret' = [ret EXCEPT !.pc = "raised", !.exit = "waitFails"]
    /\ UNCHANGED <<page, input, sess, channelVars, solveVars>>

\* Step 6 and the cleanup: if (inject) { await injectToken(...) };
\* stopTunnel(tunnel); the 'solved' event; return result
TokenFinish ==
    /\ input.tag = "solveCaptcha" /\ ret.pc = "inject"
    /\ \E outcome \in {"callback", "textarea", "", "injectFails"} :
        /\ ~input.inject => outcome = ""
        /\ ret' = IF outcome = "injectFails"
                  THEN [ret EXCEPT !.pc = "raised", !.exit = "injectFails"]
                  ELSE [ret EXCEPT !.pc = "done", !.exit = "return",
                                   !.injected = input.inject,
                                   !.injectionMethod = outcome,
                                   !.tunnel = IF @ = "started" THEN "stopped" ELSE @,
                                   !.events = Append(@, "solved")]
    /\ UNCHANGED <<page, input, sess, channelVars, solveVars>>

\* solveCaptcha is called with its options; ret holds the position, the
\* events written, the tunnel, the token and how the function ended
InitToken ==
    /\ InitRun
    /\ input \in {[tag |-> "solveCaptcha", useTunnel |-> u, inject |-> i, override |-> o] :
                    u \in BOOLEAN, i \in BOOLEAN, o \in BOOLEAN}
    /\ page = NoCall
    /\ ret = [tag |-> "token", pc |-> "start", type |-> "null", events |-> <<>>,
              tunnel |-> "none", token |-> "null", injected |-> FALSE,
              injectionMethod |-> "", exit |-> "none"]

NextToken ==
    \/ TokenStart
    \/ TokenWait
    \/ TokenFinish

SpecToken == InitToken /\ [][NextToken]_vars

\* solveCaptcha has returned or raised
TokenEnded == input.tag = "solveCaptcha" /\ ret.pc \in {"done", "raised"}

\* 'solved' is written only after 'ready' and only with a token that is not
\* empty
SolvedAfterReady ==
    (input.tag = "solveCaptcha" /\ \E k \in 1..Len(ret.events) : ret.events[k] = "solved") =>
        /\ ret.events = <<"ready", "solved">>
        /\ ret.token \notin {"null", ""}

\* C39: in solveCaptcha 'solved' is written only after 'ready' and only with
\* a token that is not empty, and on every way out after the tunnel was
\* started (timeout, injection failure, success) the tunnel is stopped.
C39_TokenRelay ==
    /\ SolvedAfterReady
    /\ TokenEnded => ret.tunnel # "started"

\* The same for the ways out that the function takes itself: the timeout and
\* the return.
TunnelStoppedOnTimeoutAndReturn ==
    /\ SolvedAfterReady
    /\ (TokenEnded /\ ret.exit \in {"timeout", "return"}) => ret.tunnel # "started"

\* the tunnel was started and stopped again on the return
TunnelStoppedOnReturn ==
    /\ TokenEnded /\ input.useTunnel
    /\ ret.exit = "return" /\ ret.tunnel = "stopped"
    /\ ret.events = <<"ready", "solved">>


\* ---------------------------------------------------------------------
\* Calls of annotate, one after another or overlapping: annotate is async
\* and gives way at each of its two awaits.
MaxAnnotateCalls == 3   \* the calls of annotate made
MaxAnnotateTime  == 1   \* the clock stops here

AnnotateCalls == 1..MaxAnnotateCalls

\* mutant: the variables are declared once, in the module, for every call
ScopeOfModule(c) == 1

\* const { cols, rows, fontSize, ... }, const { width, height }, const labels,
\* let cellNum are declared in the body of the function: every call has
\* bindings of its own
Scope(c) == c

\* annotate(imageBuffer, options) is called: const { cols = 3, rows = 3, ...,
\* fontSize = 22, ... } = options, and sharp(imageBuffer).metadata() is
\* awaited. The arguments tried are one image with two grids, and one grid
\* on two images
AnnotateBegin(c) ==
    /\ input.tag = "annotateCalls" /\ ret.pc[c] = "idle"
    /\ \E a \in {[imageBuffer |-> img, options |-> o] :
                    img \in AnnotateImages, o \in AnnotateInputs} :
        /\ <<a.imageBuffer.width, a.imageBuffer.height, a.options.cols, a.options.rows>>
              \in {<<90, 100, 2, 1>>, <<90, 100, 2, 2>>, <<300, 300, 2, 2>>}
        /\ ret' = [ret EXCEPT !.pc[c] = "metadata",
                              !.args[c] = a,
                              !.at[c] = now,
                              !.scope[Scope(c)] =
                                   [cols |-> a.options.cols, rows |-> a.options.rows,
                                    fontSize |-> a.options.fontSize,
                                    width |-> 0, height |-> 0, labels |-> <<>>]]
    /\ UNCHANGED <<page, input, sess, channelVars, solveVars>>

\* the metadata have come: const { width, height } = metadata, the labels
\* are built from them and from cols, rows and fontSize, cellNum counting
\* from 1, and the composite is awaited
AnnotateMeasured(c) ==
    /\ input.tag = "annotateCalls" /\ ret.pc[c] = "metadata"
    /\ LET v == ret.scope[Scope(c)]
           measured == [v EXCEPT !.width = ret.args[c].imageBuffer.width,
                                 !.height = ret.args[c].imageBuffer.height]
       IN  ret' = [ret EXCEPT !.pc[c] = "composite",
                              !.scope[Scope(c)] =
                                   [measured EXCEPT !.labels =
                                        AnnotateLoop(measured, measured, 0, 0, 1, <<>>)]]
    /\ UNCHANGED <<page, input, sess, channelVars, solveVars>>

\* sharp(imageBuffer).composite([{ input: svgOverlay, top: 0, left: 0 }])
\* .png().toBuffer() has resolved: the image with the labels of the overlay
\* is returned
AnnotateComposited(c) ==
    /\ input.tag = "annotateCalls" /\ ret.pc[c] = "composite"
    /\ ret' = [ret EXCEPT !.pc[c] = "done",
                          !.out[c] = Image(ret.args[c].imageBuffer.width,
                                           ret.args[c].imageBuffer.height,
                                           ret.scope[Scope(c)].labels)]
    /\ UNCHANGED <<page, input, sess, channelVars, solveVars>>

\* time passes between the calls and while they wait
AnnotateTick ==
    /\ input.tag = "annotateCalls"
    /\ now < MaxAnnotateTime
    /\ now' = now + 1
    /\ UNCHANGED <<hist, backendOffset, lastUpdateId, sess, singleVars>>

\* no call is made yet; ret holds for each call its position, its arguments,
\* the time it was made at, the variables of its body and its output
InitAnnotate ==
    /\ InitRun
    /\ input = [tag |-> "annotateCalls"]
    /\ page = NoCall
    /\ ret = [tag |-> "calls",
              pc |-> [c \in AnnotateCalls |-> "idle"],
              args |-> [c \in AnnotateCalls |-> NoCall],
              at |-> [c \in AnnotateCalls |-> 0],
              scope |-> [c \in AnnotateCalls |-> NoCall],
              out |-> [c \in AnnotateCalls |-> NoCall]]

NextAnnotate ==
    \/ \E c \in AnnotateCalls : AnnotateBegin(c)
    \/ \E c \in AnnotateCalls : AnnotateMeasured(c)
    \/ \E c \in AnnotateCalls : AnnotateComposited(c)
    \/ AnnotateTick

SpecAnnotate == InitAnnotate /\ [][NextAnnotate]_vars

\* the calls of annotate that have returned
AnnotateReturned == {c \in AnnotateCalls : ret.pc[c] = "done"}

\* C40: annotate is deterministic: two calls with the same image and the same
\* grid give the same output, whatever the time they are made at and whatever
\* calls were made before or are under way; the output is the one a call made
\* alone gives.
C40_AnnotateDeterministic ==
    /\ \A c \in AnnotateReturned, d \in AnnotateReturned :
          ret.args[c] = ret.args[d] => ret.out[c] = ret.out[d]
    /\ \A c \in AnnotateReturned :
          ret.out[c] = annotate(ret.args[c].imageBuffer, ret.args[c].options).value

\* the first and the third call had the same image and grid and were made at
\* different times; the second was made with another image and another grid,
\* no later than the third
C40_Witness ==
    /\ AnnotateReturned = AnnotateCalls
    /\ ret.args[1] = ret.args[3] /\ ret.at[1] < ret.at[3] /\ ret.at[2] <= ret.at[3]
    /\ ret.args[2].imageBuffer # ret.args[1].imageBuffer
    /\ ret.args[2].options # ret.args[1].options
    /\ ret.out[1] = ret.out[3] /\ ret.out[2] # ret.out[1]
    /\ Len(ret.out[1].badges) = 4

====
